---- MODULE Spec2Model ----
(***************************************************************************)
(* JACA Lib: a browser admin console that keeps its tables as JSON files   *)
(* in a Dropbox folder.  The model covers the remote store as the service  *)
(* class addresses it, the App session (connect, initialise, log in and    *)
(* out) and the Dashboard handlers that read and rewrite the registry      *)
(* files.                                                                  *)
(*                                                                         *)
(* Strings that the code inspects character by character (paths, ids, the  *)
(* Nr of a record) are sequences of one-character strings; strings that    *)
(* are only compared for equality (user names, roles, titles) are atoms.   *)
(* Timestamps written to createdAt and free-text descriptions are never    *)
(* read by any handler and are left out of the records.                    *)
(***************************************************************************)
EXTENDS Integers, Sequences, FiniteSets, TLC

(* ------------------------------ bounds --------------------------------- *)

\* Browser sessions that run the App against the same Dropbox account.
NumClients == 2
\* Date.now() readings available for ids (associations, libraries).
MaxTime == 4
\* Date.now() readings available where one library is worked on.
MaxTimeRecords == 2
\* Cap on the length of /associations.json.
MaxAssociations == 2
\* Cap on the length of /users.json.
MaxUsers == 3
\* Cap on the number of records of one library.
MaxRecords == 2
\* Cap on the record uploads of one session that are awaited at a time.
MaxPending == 2

Clients == 1..NumClients

(* ------------------------------ strings -------------------------------- *)

UpperChars == <<"A","B","C","D","E","F","G","H","I","J","K","L","M",
                "N","O","P","Q","R","S","T","U","V","W","X","Y","Z">>
LowerChars == <<"a","b","c","d","e","f","g","h","i","j","k","l","m",
                "n","o","p","q","r","s","t","u","v","w","x","y","z">>
DigitChars == <<"0","1","2","3","4","5","6","7","8","9">>

\* String.prototype.toLowerCase on one character.
LowerOf == [ch \in {UpperChars[i] : i \in 1..26} |->
               LowerChars[CHOOSE i \in 1..26 : UpperChars[i] = ch]]
LowerChar(ch) == IF ch \in DOMAIN LowerOf THEN LowerOf[ch] ELSE ch

toLowerCase(s) == [i \in 1..Len(s) |-> LowerChar(s[i])]

startsWith(s, prefix) ==
    /\ Len(prefix) <= Len(s)
    /\ SubSeq(s, 1, Len(prefix)) = prefix

endsWith(s, suffix) ==
    /\ Len(suffix) <= Len(s)
    /\ SubSeq(s, Len(s) - Len(suffix) + 1, Len(s)) = suffix

\* Number.prototype.toString for a natural number.
RECURSIVE NatToStr(_)
NatToStr(n) ==
    IF n < 10 THEN <<DigitChars[n + 1]>>
    ELSE NatToStr(n \div 10) \o <<DigitChars[(n % 10) + 1]>>

IsDigit(ch) == \E i \in 1..10 : DigitChars[i] = ch
DigitVal(ch) == (CHOOSE i \in 1..10 : DigitChars[i] = ch) - 1

\* parseInt(s, 10): the value of the leading run of digits; NaN (-1 here)
\* when the string does not start with a digit.
RECURSIVE ParseDigits(_, _, _)
ParseDigits(s, i, acc) ==
    IF i > Len(s) \/ ~IsDigit(s[i]) THEN acc
    ELSE ParseDigits(s, i + 1, acc * 10 + DigitVal(s[i]))

NaN == -1
parseInt(s) == IF Len(s) = 0 \/ ~IsDigit(s[1]) THEN NaN ELSE ParseDigits(s, 1, 0)

(* ------------------------------- paths --------------------------------- *)

JsonExt == <<".","j","s","o","n">>
RolesPath == <<"/","r","o","l","e","s">> \o JsonExt
UsersPath == <<"/","u","s","e","r","s">> \o JsonExt
AssociationsPath == <<"/","a","s","s","o","c","i","a","t","i","o","n","s">> \o JsonExt
DatabasesPath == <<"/","d","a","t","a","b","a","s","e","s">> \o JsonExt

\* `db_${Date.now()}` and `/music_${fileId}.json`
FileId(t) == <<"d","b","_">> \o NatToStr(t)
MusicFileName(fileId) == <<"/","m","u","s","i","c","_">> \o fileId \o JsonExt

ROOT_FOLDER == <<"/","J","A","C","A"," ","L","i","b">>

\* The path helper of the scoped variant of the service class.
getScopedPath(path) ==
    IF Len(path) = 0 THEN ROOT_FOLDER
    ELSE LET lowerPath == toLowerCase(path)
             lowerRoot == toLowerCase(ROOT_FOLDER)
         IN IF lowerPath = lowerRoot \/ startsWith(lowerPath, lowerRoot \o <<"/">>)
            THEN path
            ELSE LET cleanPath == IF startsWith(path, <<"/">>)
                                  THEN SubSeq(path, 2, Len(path)) ELSE path
                 IN IF Len(cleanPath) = 0 THEN ROOT_FOLDER
                    ELSE ROOT_FOLDER \o <<"/">> \o cleanPath

\* The path a method of the service class the App and the Dashboard import
\* puts in its request: the argument itself.
RequestPath(path) == path

(* ---------------------------- remote store ----------------------------- *)

\* downloadJson's null (HTTP 409: no such file).
NullDoc == [null |-> TRUE]
IsNull(doc) == "null" \in DOMAIN doc
\* `data && Array.isArray(data.field)`
HasArray(doc, field) == field \in DOMAIN doc

\* Dropbox compares paths case-insensitively: a file is kept under its
\* lower-cased path.
StoreKey(path) == toLowerCase(path)
StoreHas(st, path) == StoreKey(path) \in DOMAIN st
StoreGet(st, path) == IF StoreHas(st, path) THEN st[StoreKey(path)] ELSE NullDoc
StorePut(st, path, doc) ==
    [p \in DOMAIN st \cup {StoreKey(path)} |->
        IF p = StoreKey(path) THEN doc ELSE st[p]]
StoreDel(st, path) == [p \in DOMAIN st \ {StoreKey(path)} |-> st[p]]

(* ------------------------------ documents ------------------------------ *)

\* hashPassword: SHA-256, taken as injective.
hashPassword(password) == <<"sha256", password>>

Passwords == {"admin123", "pw"}
Usernames == {"admin", "bob"}

defaultRoles ==
    << [id |-> "group_admin", name |-> "Group Admin"],
       [id |-> "admin", name |-> "Admin"],
       [id |-> "user", name |-> "User"] >>

adminUser ==
    [username |-> "admin", passwordHash |-> hashPassword("admin123"),
     role |-> "group_admin", associationIds |-> {}]

\* The four core files with the content initializeDropbox gives each.
CoreFiles ==
    << [path |-> RolesPath, content |-> [roles |-> defaultRoles]],
       [path |-> UsersPath, content |-> [users |-> <<adminUser>>]],
       [path |-> AssociationsPath, content |-> [associations |-> <<>>]],
       [path |-> DatabasesPath, content |-> [databases |-> <<>>]] >>

(* ------------------------------- state --------------------------------- *)

VARIABLES
    store,          \* the Dropbox account: lower-cased path -> JSON document
    now,            \* the last reading of Date.now()
    urlCode,        \* per client: an OAuth code is in the page's URL
    localStorage,   \* per client: the stored refresh token, or NoToken
    authState,      \* per client: App's authState
    dropboxService, \* per client: App's dropboxService (its token), or NoService
    pc,             \* per client: the asynchronous handler in flight
    dash,           \* per client: the Dashboard component's state
    sent,           \* the request paths of the last step's remote calls
    lastOp          \* the handler that ran in the last step, for whom, and
                    \* whether it reported an error to the user (alert /
                    \* error banner); NoOp after a step that ran none

vars == <<store, now, urlCode, localStorage, authState, dropboxService, pc,
          dash, sent, lastOp>>

NoToken == "none"
NoService == [none |-> TRUE]
NoUser == [none |-> TRUE]
NoDatabase == [none |-> TRUE]
NoRecord == [none |-> TRUE]
NoFile == [none |-> TRUE]
NoLogin == [none |-> TRUE]
NoSort == [none |-> TRUE]
IsNone(x) == "none" \in DOMAIN x
Idle == [op |-> "none"]
NoOp == [client |-> 0, op |-> "none", alerted |-> FALSE]

\* DROPBOX_ACCESS_TOKEN = '' (the legacy hard-coded token is not configured).
DROPBOX_ACCESS_TOKEN == NoToken

authStateInit ==
    [dropboxToken |-> NoToken, refreshToken |-> NoToken, tokenExpiresAt |-> "null",
     isAuthenticated |-> FALSE, currentUser |-> NoUser, status |-> "idle"]

\* The useState initial values of the Dashboard component.
DashInit ==
    [activeTab |-> "music",
     files |-> <<>>, users |-> <<>>, associations |-> <<>>, roles |-> <<>>,
     musicDatabases |-> <<>>,
     viewingDatabase |-> NoDatabase, dbRecords |-> <<>>,
     isAddingRecord |-> FALSE,
     newRecordData |-> [nr |-> <<>>, title |-> "", composer |-> "", arranged |-> ""],
     editingRecord |-> NoRecord,
     editingFile |-> NoFile,
     searchTerm |-> <<>>, sortConfig |-> NoSort]

Init ==
    /\ store = << >>
    /\ now = 0
    /\ urlCode = [c \in Clients |-> FALSE]
    /\ localStorage = [c \in Clients |-> NoToken]
    /\ authState = [c \in Clients |-> authStateInit]
    /\ dropboxService = [c \in Clients |-> NoService]
    /\ pc = [c \in Clients |-> Idle]
    /\ dash = [c \in Clients |-> DashInit]
    /\ sent = {}
    /\ lastOp = NoOp

Note(c, op, alerted, paths) ==
    /\ lastOp' = [client |-> c, op |-> op, alerted |-> alerted]
    /\ sent' = paths

\* A step that only changes what is on the screen: no handler that talks to
\* the service has run in it.
Quiet == lastOp' = NoOp /\ sent' = {}

(* -------------------------------- App ---------------------------------- *)

\* The pending call of initializeDropbox(token): which await it is at, whether
\* a remote call of it has failed so far, and the login attempt that
\* continues when it returns (NoLogin at startup).
InitPc(token, resume) ==
    [op |-> "init", token |-> token, file |-> 0, phase |-> "list",
     failed |-> FALSE, resume |-> resume]

\* handleTokenSuccess up to its call of initializeDropbox.
handleTokenSuccess(c, accessToken, refreshToken, resume) ==
    /\ localStorage' = IF refreshToken # NoToken
                       THEN [localStorage EXCEPT ![c] = refreshToken]
                       ELSE localStorage
    /\ authState' = [authState EXCEPT
                        ![c].dropboxToken = accessToken,
                        ![c].refreshToken =
                            IF refreshToken # NoToken THEN refreshToken ELSE @,
                        ![c].tokenExpiresAt = "later"]
    /\ pc' = [pc EXCEPT ![c] = InitPc(accessToken, resume)]

\* A form of the order of the credential sources that looks at the stored
\* refresh token first.
CredentialSourceStoredFirst(code, stored, configured) ==
    IF stored # NoToken THEN "refresh"
    ELSE IF code THEN "code"
    ELSE IF configured # NoToken THEN "config"
    ELSE "none"

\* The if-chain of handleAuthFlow: A the code of the URL, B the stored refresh
\* token, C the configured token, D none.
CredentialSource(code, stored, configured) ==
    IF code THEN "code"
    ELSE IF stored # NoToken THEN "refresh"
    ELSE IF configured # NoToken THEN "config"
    ELSE "none"

\* The mount effect of App, up to the first await of the source it picks.
handleAuthFlow(c) ==
    /\ authState[c].status = "idle"
    /\ pc[c].op = "none"
    /\ LET source == CredentialSource(urlCode[c], localStorage[c], DROPBOX_ACCESS_TOKEN)
       IN CASE source = "code" ->
                 /\ authState' = [authState EXCEPT ![c].status = "checking_dropbox"]
                 /\ pc' = [pc EXCEPT ![c] = [op |-> "exchangeCodeForToken"]]
            [] source = "refresh" ->
                 /\ authState' = [authState EXCEPT ![c].status = "checking_dropbox"]
                 /\ pc' = [pc EXCEPT ![c] = [op |-> "refreshAccessToken",
                                              refreshToken |-> localStorage[c],
                                              resume |-> NoLogin]]
            [] source = "config" ->
                 /\ pc' = [pc EXCEPT ![c] = InitPc(DROPBOX_ACCESS_TOKEN, NoLogin)]
                 /\ UNCHANGED authState
            [] OTHER ->
                 /\ authState' = [authState EXCEPT ![c].status = "login_required"]
                 /\ UNCHANGED pc
    /\ Note(c, "handleAuthFlow", FALSE, {})
    /\ UNCHANGED <<store, now, urlCode, localStorage, dropboxService, dash>>

\* Branch A of handleAuthFlow after AuthService.exchangeCodeForToken: ok is
\* whether the token endpoint answers with tokens.
exchangeCodeForToken(c, ok) ==
    /\ pc[c].op = "exchangeCodeForToken"
    /\ IF ok
       THEN /\ urlCode' = [urlCode EXCEPT ![c] = FALSE]
            /\ handleTokenSuccess(c, "T_code", "R_code", NoLogin)
       ELSE /\ authState' = [authState EXCEPT ![c].status = "login_required"]
            /\ pc' = [pc EXCEPT ![c] = Idle]
            /\ UNCHANGED <<urlCode, localStorage>>
    /\ Note(c, "exchangeCodeForToken", ~ok, {})
    /\ UNCHANGED <<store, now, dropboxService, dash>>

\* The access token a refresh answers with: not the one held.
RefreshedToken(held) == IF held = "T_refresh" THEN "T_refresh2" ELSE "T_refresh"

\* A form of the catch block of branch B that leaves the stored token.
RefreshFailureKeepsToken(c) ==
    /\ authState' = [authState EXCEPT ![c].status = "login_required"]
    /\ UNCHANGED localStorage

\* The catch block of branch B: the stored refresh token is removed.
RefreshFailure(c) ==
    /\ localStorage' = [localStorage EXCEPT ![c] = NoToken]
    /\ authState' = [authState EXCEPT ![c].status = "login_required"]

\* AuthService.refreshAccessToken answering, in branch B of handleAuthFlow
\* (no login pending) or in handleAppLogin.
refreshAccessToken(c, ok) ==
    /\ pc[c].op = "refreshAccessToken"
    /\ IF ok
       THEN handleTokenSuccess(c, RefreshedToken(authState[c].dropboxToken),
                               pc[c].refreshToken, pc[c].resume)
       ELSE /\ pc' = [pc EXCEPT ![c] = Idle]
            /\ IF IsNone(pc[c].resume)
               THEN RefreshFailure(c)
               ELSE /\ authState' = [authState EXCEPT ![c].status = "login_required"]
                    /\ UNCHANGED localStorage
    /\ Note(c, "refreshAccessToken", ~ok /\ ~IsNone(pc[c].resume), {})
    /\ UNCHANGED <<store, now, urlCode, dropboxService, dash>>

\* ConnectDropbox's manual token form.
handleManualTokenLogin(c) ==
    /\ authState[c].status = "login_required"
    /\ pc[c].op = "none"
    /\ authState' = [authState EXCEPT ![c].status = "checking_dropbox"]
    /\ pc' = [pc EXCEPT ![c] = InitPc("T_manual", NoLogin)]
    /\ Note(c, "handleManualTokenLogin", FALSE, {})
    /\ UNCHANGED <<store, now, urlCode, localStorage, dropboxService, dash>>

\* initializeDropbox returning: the status it sets, and the login attempt
\* that awaited it, if any, goes on.
InitReturns(c, status) ==
    /\ authState' = [authState EXCEPT ![c].status = status]
    /\ pc' = [pc EXCEPT ![c] =
                 IF IsNone(pc[c].resume) THEN Idle
                 ELSE [op |-> "handleAppLogin", username |-> pc[c].resume.username,
                       pass |-> pc[c].resume.pass, service |-> pc[c].resume.service]]

\* initializeDropbox, one await at a time.  ok is whether the remote call of
\* the step gets its answer.
\*   list:   listFiles('') swallows every error; then setDropboxService.
\*   check:  fileExists is true only when the metadata call succeeds.
\*   upload: a failed upload is caught: error banner, login_required.
initializeDropbox(c, ok) ==
    /\ pc[c].op = "init"
    /\ LET k == pc[c].file IN
       CASE pc[c].phase = "list" ->
              /\ dropboxService' = [dropboxService EXCEPT
                                       ![c] = [accessToken |-> pc[c].token]]
              /\ pc' = [pc EXCEPT ![c].file = 1, ![c].phase = "check",
                                  ![c].failed = ~ok]
              /\ Note(c, "initializeDropbox", FALSE, {RequestPath(<<>>)})
              /\ UNCHANGED <<store, authState>>
         [] pc[c].phase = "check" ->
              LET exists == ok /\ StoreHas(store, RequestPath(CoreFiles[k].path)) IN
              /\ IF ~exists
                 THEN /\ pc' = [pc EXCEPT ![c].phase = "upload",
                                         ![c].failed = @ \/ ~ok]
                      /\ UNCHANGED authState
                 ELSE IF k < Len(CoreFiles)
                 THEN /\ pc' = [pc EXCEPT ![c].file = k + 1]
                      /\ UNCHANGED authState
                 ELSE InitReturns(c, "app_login")
              /\ Note(c, "initializeDropbox", FALSE, {RequestPath(CoreFiles[k].path)})
              /\ UNCHANGED <<store, dropboxService>>
         [] pc[c].phase = "upload" ->
              /\ IF ok
                 THEN /\ store' = StorePut(store, RequestPath(CoreFiles[k].path),
                                           CoreFiles[k].content)
                      /\ IF k < Len(CoreFiles)
                         THEN /\ pc' = [pc EXCEPT ![c].file = k + 1, ![c].phase = "check"]
                              /\ UNCHANGED authState
                         ELSE InitReturns(c, "app_login")
                 ELSE /\ InitReturns(c, "login_required")
                      /\ UNCHANGED store
              /\ Note(c, "initializeDropbox", ~ok, {RequestPath(CoreFiles[k].path)})
              /\ UNCHANGED dropboxService
    /\ UNCHANGED <<now, urlCode, localStorage, dash>>

\* Array.prototype.find on users by username: the first match, or NoUser.
FindUser(users, username) ==
    IF \E i \in 1..Len(users) : users[i].username = username
    THEN users[CHOOSE i \in 1..Len(users) :
                  /\ users[i].username = username
                  /\ \A j \in 1..(i - 1) : users[j].username # username]
    ELSE NoUser

\* A form of the password check that accepts every password.
PasswordMatchesAny(pass, userRecord) == TRUE

\* `inputHash !== userRecord.passwordHash` not holding.
PasswordMatches(pass, userRecord) == hashPassword(pass) = userRecord.passwordHash

\* handleAppLogin from its download of /users.json on, made with the service
\* the handler holds: find the user, compare the hashes.  Every throw is shown
\* by AppLogin as an error and changes nothing.  On success the Dashboard
\* mounts and its effect is due.
AppLoginTail(c, username, pass, service, ok) ==
    LET userData == StoreGet(store, RequestPath(UsersPath))
        userRecord == IF ok /\ HasArray(userData, "users")
                      THEN FindUser(userData.users, username) ELSE NoUser
        success == /\ ~IsNone(userRecord)
                   /\ PasswordMatches(pass, userRecord)
    IN /\ IF success
          THEN /\ authState' = [authState EXCEPT ![c].isAuthenticated = TRUE,
                                                 ![c].currentUser = userRecord,
                                                 ![c].status = "dashboard"]
               /\ dash' = [dash EXCEPT ![c] = DashInit]
               /\ pc' = [pc EXCEPT ![c] = [op |-> "useEffect"]]
          ELSE /\ pc' = [pc EXCEPT ![c] = Idle]
               /\ UNCHANGED <<authState, dash>>
       /\ lastOp' = [client |-> c, op |-> "handleAppLogin", alerted |-> ~success,
                     token |-> service.accessToken]
       /\ sent' = {RequestPath(UsersPath)}

\* handleAppLogin (submit of the AppLogin form).  With a token past its
\* expiry and a refresh token held, the handler first awaits the refresh,
\* keeping the dropboxService of the render it was made in.
handleAppLogin(c, username, pass, ok) ==
    /\ authState[c].status = "app_login"
    /\ pc[c].op = "none"
    /\ ~IsNone(dropboxService[c])
    /\ IF authState[c].tokenExpiresAt = "passed" /\ authState[c].refreshToken # NoToken
       THEN /\ pc' = [pc EXCEPT ![c] =
                         [op |-> "refreshAccessToken",
                          refreshToken |-> authState[c].refreshToken,
                          resume |-> [username |-> username, pass |-> pass,
                                      service |-> dropboxService[c]]]]
            /\ Note(c, "handleAppLogin", FALSE, {})
            /\ UNCHANGED <<authState, dash>>
       ELSE AppLoginTail(c, username, pass, dropboxService[c], ok)
    /\ UNCHANGED <<store, now, urlCode, localStorage, dropboxService>>

\* handleAppLogin going on after the refresh and initializeDropbox it awaited.
resumeAppLogin(c, ok) ==
    /\ pc[c].op = "handleAppLogin"
    /\ AppLoginTail(c, pc[c].username, pc[c].pass, pc[c].service, ok)
    /\ UNCHANGED <<store, now, urlCode, localStorage, dropboxService>>

\* Date.now() passes tokenExpiresAt while the login form is shown.
tokenExpires(c) ==
    /\ authState[c].status = "app_login"
    /\ pc[c].op = "none"
    /\ authState[c].tokenExpiresAt = "later"
    /\ authState' = [authState EXCEPT ![c].tokenExpiresAt = "passed"]
    /\ Quiet
    /\ UNCHANGED <<store, now, urlCode, localStorage, dropboxService, pc, dash>>

\* Disconnect Dropbox on the login form.
handleResetDropbox(c) ==
    /\ authState[c].status = "app_login"
    /\ pc[c].op = "none"
    /\ localStorage' = [localStorage EXCEPT ![c] = NoToken]
    /\ dropboxService' = [dropboxService EXCEPT ![c] = NoService]
    /\ authState' = [authState EXCEPT
                        ![c] = [authStateInit EXCEPT !.status = "login_required"]]
    /\ Note(c, "handleResetDropbox", FALSE, {})
    /\ UNCHANGED <<store, now, urlCode, pc, dash>>

\* The page is loaded again: App mounts with its initial state; the URL and
\* the local storage are as they were.
reload(c) ==
    /\ authState[c].status \in {"login_required", "app_login", "dashboard"}
    /\ pc[c].op = "none"
    /\ authState' = [authState EXCEPT ![c] = authStateInit]
    /\ dropboxService' = [dropboxService EXCEPT ![c] = NoService]
    /\ dash' = [dash EXCEPT ![c] = DashInit]
    /\ Quiet
    /\ UNCHANGED <<store, now, urlCode, localStorage, pc>>

\* Connect with Dropbox on the connect page: AuthService.startAuth leaves for
\* Dropbox, which sends the browser back with a code in the URL.
handleConnectOAuth(c) ==
    /\ authState[c].status = "login_required"
    /\ pc[c].op = "none"
    /\ ~urlCode[c]
    /\ urlCode' = [urlCode EXCEPT ![c] = TRUE]
    /\ authState' = [authState EXCEPT ![c] = authStateInit]
    /\ dropboxService' = [dropboxService EXCEPT ![c] = NoService]
    /\ Quiet
    /\ UNCHANGED <<store, now, localStorage, pc, dash>>

\* Sign Out: back to the app login; the Dashboard is unmounted.
handleLogout(c) ==
    /\ authState[c].status = "dashboard"
    /\ pc[c].op = "none"
    /\ authState' = [authState EXCEPT ![c].isAuthenticated = FALSE,
                                      ![c].currentUser = NoUser,
                                      ![c].status = "app_login"]
    /\ dash' = [dash EXCEPT ![c] = DashInit]
    /\ Note(c, "handleLogout", FALSE, {})
    /\ UNCHANGED <<store, now, urlCode, localStorage, dropboxService, pc>>

(* ----------------------------- Dashboard -------------------------------- *)

user(c) == authState[c].currentUser

\* Permissions helpers.
isGroupAdmin(c) == user(c).role = "group_admin"
isAdmin(c) == user(c).role = "admin"
canManageFiles(c) == isGroupAdmin(c)
canManageAssociations(c) == isGroupAdmin(c)
canManageUsers(c) == isGroupAdmin(c) \/ isAdmin(c)
canManageDatabases(c) == isGroupAdmin(c) \/ isAdmin(c)

\* The Dashboard is mounted and no handler of this session is in flight.
InDashboard(c) == authState[c].status = "dashboard" /\ pc[c].op \in {"none", "records"}
\* The tabbed page is what is rendered (no library is open).
PageShown(c) ==
    /\ InDashboard(c)
    /\ IsNone(dash[c].viewingDatabase)
\* ... on the given tab, and the file editor does not cover it.
OnTab(c, tab) ==
    /\ PageShown(c)
    /\ IsNone(dash[c].editingFile)
    /\ dash[c].activeTab = tab

AppFrame == UNCHANGED <<urlCode, localStorage, authState, dropboxService>>

\* The ids of a list of entries.
Ids(s) == {s[i].id : i \in 1..Len(s)}

\* A form of the user filter whose admin branch keeps group admins that share
\* an association.
UsersShownWithGroupAdmins(c, cur, userData, ok) ==
    IF ~canManageUsers(c) THEN cur
    ELSE IF ok /\ HasArray(userData, "users")
    THEN IF isAdmin(c) /\ ~isGroupAdmin(c)
         THEN LET Keep(u) ==
                     \/ u.username = user(c).username
                     \/ u.associationIds \cap user(c).associationIds # {}
              IN SelectSeq(userData.users, Keep)
         ELSE userData.users
    ELSE cur

\* loadUsers: what setUsers receives, given the downloaded document, or the
\* list as it was when nothing is set.
UsersShown(c, cur, userData, ok) ==
    IF ~canManageUsers(c) THEN cur
    ELSE IF ok /\ HasArray(userData, "users")
    THEN IF isAdmin(c) /\ ~isGroupAdmin(c)
         THEN LET Keep(u) ==
                     \/ u.username = user(c).username
                     \/ /\ u.role # "group_admin"
                        /\ u.associationIds \cap user(c).associationIds # {}
              IN SelectSeq(userData.users, Keep)
         ELSE userData.users
    ELSE cur

\* A form of the library filter that keeps every entry for every caller.
MusicDatabasesUnfiltered(c, cur, dbData, ok) ==
    IF ok /\ HasArray(dbData, "databases") THEN dbData.databases ELSE cur

\* loadMusicDatabases: what setMusicDatabases receives.
MusicDatabasesShown(c, cur, dbData, ok) ==
    IF ok /\ HasArray(dbData, "databases")
    THEN IF ~isGroupAdmin(c)
         THEN LET Keep(db) == db.associationId \in user(c).associationIds
              IN SelectSeq(dbData.databases, Keep)
         ELSE dbData.databases
    ELSE cur

\* The entries list_folder returns for the account's root (the service passes
\* '' as the path), in path order; an entry's name is its path without the
\* leading slash.  Only files directly in the root are listed.
InRoot(key) == /\ Len(key) > 1
               /\ key[1] = "/"
               /\ \A i \in 2..Len(key) : key[i] # "/"
RECURSIVE SetToSeq(_)
SetToSeq(S) ==
    IF S = {} THEN <<>>
    ELSE LET x == CHOOSE y \in S : TRUE IN <<x>> \o SetToSeq(S \ {x})
RootEntries(st) ==
    LET keys == SetToSeq({k \in DOMAIN st : InRoot(k)})
    IN [i \in 1..Len(keys) |->
           [name |-> SubSeq(keys[i], 2, Len(keys[i])), path_lower |-> keys[i]]]

\* loadFiles: listFiles('') answers [] on any error; the .json files are kept.
FilesShown(c, cur, st, ok) ==
    IF ~canManageFiles(c) THEN cur
    ELSE LET entries == IF ok THEN RootEntries(st) ELSE <<>>
             Keep(e) == endsWith(e.name, JsonExt)
         IN SelectSeq(entries, Keep)

\* loadRoles / loadAssociations: what setRoles / setAssociations receive.
RolesShown(cur, roleData, ok) ==
    IF ok /\ HasArray(roleData, "roles") THEN roleData.roles ELSE cur
AssociationsShown(cur, assocData, ok) ==
    IF ok /\ HasArray(assocData, "associations") THEN assocData.associations ELSE cur

\* The effect that runs when the Dashboard mounts and after every change of
\* activeTab: loadRoles, loadAssociations and the loaders of the tab.  Each
\* loader keeps the list it has when its download fails.  (On the
\* associations tab loadAssociations is called twice; okAssoc says that one
\* of the two downloads is answered.)  d is the component's state when the
\* effect runs.
EffectLoads(c, d, okRoles, okAssoc, okTab, okFiles) ==
    LET withFiles == d.activeTab = "files" /\ canManageFiles(c)
        withUsers == d.activeTab = "users" /\ canManageUsers(c)
        withDbs == d.activeTab = "music" \/ withFiles
    IN [d EXCEPT
          !.roles = RolesShown(@, StoreGet(store, RequestPath(RolesPath)), okRoles),
          !.associations =
              AssociationsShown(@, StoreGet(store, RequestPath(AssociationsPath)), okAssoc),
          !.files = IF withFiles THEN FilesShown(c, @, store, okFiles) ELSE @,
          !.users =
              IF withUsers
              THEN UsersShown(c, @, StoreGet(store, RequestPath(UsersPath)), okTab)
              ELSE @,
          !.musicDatabases =
              IF withDbs
              THEN MusicDatabasesShown(c, @, StoreGet(store, RequestPath(DatabasesPath)),
                                       okTab)
              ELSE @]

EffectPaths(c, tab) ==
    {RequestPath(RolesPath), RequestPath(AssociationsPath)}
    \cup (IF tab = "files" /\ canManageFiles(c)
          THEN {RequestPath(<<>>), RequestPath(DatabasesPath)} ELSE {})
    \cup (IF tab = "users" /\ canManageUsers(c) THEN {RequestPath(UsersPath)} ELSE {})
    \cup (IF tab = "music" THEN {RequestPath(DatabasesPath)} ELSE {})

\* The Dashboard's first render after a login: the effect runs for the user
\* who logged in.
useEffect(c, okRoles, okAssoc, okTab, okFiles) ==
    /\ authState[c].status = "dashboard"
    /\ pc[c].op = "useEffect"
    /\ dash' = [dash EXCEPT
                   ![c] = EffectLoads(c, @, okRoles, okAssoc, okTab, okFiles)]
    /\ Note(c, "useEffect", FALSE, EffectPaths(c, dash[c].activeTab))
    /\ pc' = [pc EXCEPT ![c] = Idle]
    /\ UNCHANGED <<store, now>> /\ AppFrame

\* The refresh button of the Music Libraries tab.
loadMusicDatabases(c, ok) ==
    /\ OnTab(c, "music")
    /\ dash' = [dash EXCEPT ![c].musicDatabases =
                   MusicDatabasesShown(c, @, StoreGet(store, RequestPath(DatabasesPath)), ok)]
    /\ Note(c, "loadMusicDatabases", FALSE, {RequestPath(DatabasesPath)})
    /\ UNCHANGED <<store, now, pc>> /\ AppFrame

\* The refresh button of the File Manager tab.
loadFiles(c, ok) ==
    /\ OnTab(c, "files")
    /\ canManageFiles(c)
    /\ dash' = [dash EXCEPT ![c].files = FilesShown(c, @, store, ok)]
    /\ Note(c, "loadFiles", FALSE, {RequestPath(<<>>)})
    /\ UNCHANGED <<store, now, pc>> /\ AppFrame

\* The sidebar shows a tab's button only to the roles that may manage it.
TabsShown(c) ==
    {"music"}
    \cup (IF canManageFiles(c) THEN {"files"} ELSE {})
    \cup (IF canManageUsers(c) THEN {"users"} ELSE {})
    \cup (IF canManageAssociations(c) THEN {"associations"} ELSE {})

\* handleNavClick: setActiveTab, and the effect the change of tab triggers.
handleNavClick(c, tab, okRoles, okAssoc, okTab, okFiles) ==
    /\ PageShown(c)
    /\ IsNone(dash[c].editingFile)
    /\ tab \in TabsShown(c)
    /\ tab # dash[c].activeTab
    /\ dash' = [dash EXCEPT
                   ![c] = EffectLoads(c, [@ EXCEPT !.activeTab = tab],
                                      okRoles, okAssoc, okTab, okFiles)]
    /\ Note(c, "handleNavClick", FALSE, EffectPaths(c, tab))
    /\ UNCHANGED <<store, now, pc>> /\ AppFrame

\* A form of the assignable associations that offers an admin all of them.
getAvailableAssociationsAll(c) ==
    IF isGroupAdmin(c) \/ isAdmin(c) THEN dash[c].associations ELSE <<>>

\* The associations offered for assignment.
getAvailableAssociations(c) ==
    IF isGroupAdmin(c) THEN dash[c].associations
    ELSE IF isAdmin(c)
    THEN LET Keep(a) == a.id \in user(c).associationIds
         IN SelectSeq(dash[c].associations, Keep)
    ELSE <<>>

(* ------------------------- music libraries ----------------------------- *)

NrInputs == {<<>>, <<"1">>}
Titles == {"a"}
emptyRecord == [nr |-> <<>>, title |-> "", composer |-> "", arranged |-> ""]
MusicRecord(nr, title) == [nr |-> nr, title |-> title, composer |-> "", arranged |-> ""]

\* The rows an imported workbook can yield after `.filter(r => r.title)`.
ImportRows == {MusicRecord(<<"1">>, "a")}
ImportSheets == {<<>>} \cup {<<r>> : r \in ImportRows}
DatabaseNames == {"lib"}

\* The remote writes of handleSaveImport, each awaited before the next is
\* made: the content file, then the registry with the entry appended to what
\* the download in between gave (nothing, when it failed).  The store they
\* leave: the first write that fails ends the handler.
ImportWritesRegistryFirst(st, fileName, allRecords, newDbEntry, okContent, okReg, okUpload) ==
    LET regData == StoreGet(st, RequestPath(DatabasesPath))
        currentRegistry == IF okReg /\ HasArray(regData, "databases")
                           THEN regData.databases ELSE <<>>
        store1 == StorePut(st, RequestPath(DatabasesPath),
                           [databases |-> Append(currentRegistry, newDbEntry)])
        store2 == StorePut(store1, RequestPath(fileName), [records |-> allRecords])
    IN IF ~okUpload THEN st ELSE IF ~okContent THEN store1 ELSE store2
ImportWrites(st, fileName, allRecords, newDbEntry, okContent, okReg, okUpload) ==
    LET store1 == StorePut(st, RequestPath(fileName), [records |-> allRecords])
        regData == StoreGet(store1, RequestPath(DatabasesPath))
        currentRegistry == IF okReg /\ HasArray(regData, "databases")
                           THEN regData.databases ELSE <<>>
        store2 == StorePut(store1, RequestPath(DatabasesPath),
                           [databases |-> Append(currentRegistry, newDbEntry)])
    IN IF ~okContent THEN st ELSE IF ~okUpload THEN store1 ELSE store2

\* handleSaveImport: upload the content file, then read the registry (a failed
\* read is swallowed and leaves the empty list), append the entry and write
\* the registry back; on success the list is refreshed.
handleSaveImport(c, name, associationId, allRecords, okContent, okReg, okUpload, okLoad) ==
    /\ OnTab(c, "music")
    /\ canManageDatabases(c)
    /\ associationId \in Ids(getAvailableAssociations(c))
    /\ now < MaxTime
    /\ now' = now + 1
    /\ LET fileId == FileId(now')
           fileName == MusicFileName(fileId)
           newDbEntry == [id |-> fileId, name |-> name, associationId |-> associationId,
                          fileName |-> fileName, recordCount |-> Len(allRecords)]
       IN /\ store' = ImportWrites(store, fileName, allRecords, newDbEntry,
                                   okContent, okReg, okUpload)
          /\ IF ~okContent
             THEN /\ UNCHANGED dash
                  /\ Note(c, "handleSaveImport", TRUE, {RequestPath(fileName)})
             ELSE IF ~okUpload
             THEN /\ UNCHANGED dash
                  /\ Note(c, "handleSaveImport", TRUE,
                          {RequestPath(fileName), RequestPath(DatabasesPath)})
             ELSE /\ dash' = [dash EXCEPT ![c].musicDatabases =
                                 MusicDatabasesShown(c, @,
                                     StoreGet(store', RequestPath(DatabasesPath)), okLoad)]
                  /\ Note(c, "handleSaveImport", FALSE,
                          {RequestPath(fileName), RequestPath(DatabasesPath)})
    /\ UNCHANGED pc /\ AppFrame

\* When handleDeleteDatabase reaches its outer catch: the registry download
\* threw, or the registry upload did.  The content file's deleteFile has a
\* catch of its own, so its failure is not among them.
DeleteDatabaseFailedOnContent(okDel, okReg, hasRegistry, okUpload) ==
    ~okDel \/ ~okReg \/ (hasRegistry /\ ~okUpload)
DeleteDatabaseFailed(okDel, okReg, hasRegistry, okUpload) ==
    ~okReg \/ (hasRegistry /\ ~okUpload)

\* handleDeleteDatabase: delete the content file (a failure is only logged),
\* then rewrite the registry without the entry, then refresh the lists.
handleDeleteDatabase(c, i, okDel, okReg, okUpload, okLoad, okFiles) ==
    /\ OnTab(c, "music")
    /\ canManageDatabases(c)
    /\ i \in 1..Len(dash[c].musicDatabases)
    /\ LET db == dash[c].musicDatabases[i]
           store1 == IF okDel /\ StoreHas(store, RequestPath(db.fileName))
                     THEN StoreDel(store, RequestPath(db.fileName)) ELSE store
           regData == StoreGet(store1, RequestPath(DatabasesPath))
           Keep(d) == d.id # db.id
           store2 == IF HasArray(regData, "databases")
                     THEN StorePut(store1, RequestPath(DatabasesPath),
                                   [databases |-> SelectSeq(regData.databases, Keep)])
                     ELSE store1
           failed == DeleteDatabaseFailed(okDel, okReg,
                                          HasArray(regData, "databases"), okUpload)
       IN /\ IF failed
             THEN /\ store' = store1
                  /\ UNCHANGED dash
             ELSE /\ store' = store2
                  /\ dash' = [dash EXCEPT
                        ![c].musicDatabases =
                            MusicDatabasesShown(c, @,
                                StoreGet(store2, RequestPath(DatabasesPath)), okLoad),
                        ![c].files = FilesShown(c, @, store2, okFiles)]
          /\ Note(c, "handleDeleteDatabase", failed,
                  {RequestPath(db.fileName), RequestPath(DatabasesPath)}
                  \cup (IF ~failed /\ canManageFiles(c) THEN {RequestPath(<<>>)} ELSE {}))
    /\ UNCHANGED <<now, pc>> /\ AppFrame

\* handleOpenDatabase ("Manage"): load the records of a listed library.
handleOpenDatabase(c, i, ok) ==
    /\ OnTab(c, "music")
    /\ i \in 1..Len(dash[c].musicDatabases)
    /\ LET db == dash[c].musicDatabases[i]
           content == StoreGet(store, RequestPath(db.fileName))
           loaded == ok /\ HasArray(content, "records")
       IN /\ IF loaded
             THEN dash' = [dash EXCEPT ![c].dbRecords = content.records,
                                       ![c].viewingDatabase = db,
                                       ![c].searchTerm = <<>>,
                                       ![c].sortConfig = NoSort]
             ELSE UNCHANGED dash
          /\ Note(c, "handleOpenDatabase", ~loaded, {RequestPath(db.fileName)})
    /\ UNCHANGED <<store, now, pc>> /\ AppFrame

\* A library is open and no record modal covers its table.
Viewing(c) == InDashboard(c) /\ ~IsNone(dash[c].viewingDatabase)
TableShown(c) ==
    /\ Viewing(c)
    /\ ~dash[c].isAddingRecord
    /\ IsNone(dash[c].editingRecord)

\* The Back button of the library view.
handleCloseDatabase(c) ==
    /\ TableShown(c)
    /\ dash' = [dash EXCEPT ![c].viewingDatabase = NoDatabase]
    /\ Quiet
    /\ UNCHANGED <<store, now, pc>> /\ AppFrame

\* The largest parseInt(r.nr) over the records, 0 when there is none.
MaxNr(records) ==
    LET vals == {parseInt(records[i].nr) : i \in 1..Len(records)} \cup {0}
    IN CHOOSE m \in vals : \A v \in vals : v <= m

handleOpenAddRecordModal(c) ==
    /\ TableShown(c)
    /\ dash' = [dash EXCEPT
                   ![c].newRecordData =
                       [emptyRecord EXCEPT !.nr = NatToStr(MaxNr(dash[c].dbRecords) + 1)],
                   ![c].isAddingRecord = TRUE]
    /\ Quiet
    /\ UNCHANGED <<store, now, pc>> /\ AppFrame

\* Typing in the Nr and Title inputs of the Add New Item form.
setNewRecordData(c, nr, title) ==
    /\ Viewing(c)
    /\ dash[c].isAddingRecord
    /\ dash[c].newRecordData # MusicRecord(nr, title)
    /\ dash' = [dash EXCEPT ![c].newRecordData = MusicRecord(nr, title)]
    /\ Quiet
    /\ UNCHANGED <<store, now, pc>> /\ AppFrame

\* Cancel in the Add New Item form.
cancelAddRecord(c) ==
    /\ Viewing(c)
    /\ dash[c].isAddingRecord
    /\ dash' = [dash EXCEPT ![c].isAddingRecord = FALSE]
    /\ Quiet
    /\ UNCHANGED <<store, now, pc>> /\ AppFrame

\* renderAddRecordModal: a record that already carries the Nr typed in.
ExistingNrOnAdd(c) ==
    {i \in 1..Len(dash[c].dbRecords) :
        /\ dash[c].dbRecords[i].nr = dash[c].newRecordData.nr
        /\ dash[c].newRecordData.nr # <<>>}

\* A form of the Add Item button that is never disabled by the Nr typed in.
AddItemEnabledAnyNr(c) == dash[c].newRecordData.title # ""

\* The Add Item button is disabled while such a record exists; Title is a
\* required input.
AddItemEnabled(c) ==
    /\ ExistingNrOnAdd(c) = {}
    /\ dash[c].newRecordData.title # ""

\* updateDatabaseRegistryCount: the shown list with the count of db replaced.
UpdatedDbs(c, db, newCount) ==
    LET Upd(d) == IF d.id = db.id THEN [d EXCEPT !.recordCount = newCount] ELSE d
    IN [i \in 1..Len(dash[c].musicDatabases) |-> Upd(dash[c].musicDatabases[i])]

\* handleCreateRecord (submit of the Add New Item form): upload the records
\* with the new one appended, then updateDatabaseRegistryCount, which writes
\* the shown list as the registry and swallows a failed upload.
handleCreateRecord(c, okContent, okReg) ==
    /\ Viewing(c)
    /\ dash[c].isAddingRecord
    /\ AddItemEnabled(c)
    /\ Len(dash[c].dbRecords) < MaxRecords
    /\ LET db == dash[c].viewingDatabase
           newRecords == Append(dash[c].dbRecords, dash[c].newRecordData)
           updatedDbs == UpdatedDbs(c, db, Len(newRecords))
           store1 == StorePut(store, RequestPath(db.fileName), [records |-> newRecords])
       IN IF ~okContent
          THEN /\ UNCHANGED <<store, dash>>
               /\ Note(c, "handleCreateRecord", TRUE, {RequestPath(db.fileName)})
          ELSE /\ dash' = [dash EXCEPT ![c].dbRecords = newRecords,
                                       ![c].isAddingRecord = FALSE,
                                       ![c].newRecordData = emptyRecord,
                                       ![c].musicDatabases = updatedDbs]
               /\ store' = IF okReg
                           THEN StorePut(store1, RequestPath(DatabasesPath),
                                         [databases |-> updatedDbs])
                           ELSE store1
               /\ Note(c, "handleCreateRecord", FALSE,
                       {RequestPath(db.fileName), RequestPath(DatabasesPath)})
    /\ UNCHANGED <<now, pc>> /\ AppFrame

\* Array.prototype.splice(index, 1) with index counted from 1.
RemoveAt(s, i) == SubSeq(s, 1, i - 1) \o SubSeq(s, i + 1, Len(s))

\* handleDeleteRecord on the row whose originalIndex is i.
handleDeleteRecord(c, i, okContent, okReg) ==
    /\ TableShown(c)
    /\ i \in 1..Len(dash[c].dbRecords)
    /\ LET db == dash[c].viewingDatabase
           newRecords == RemoveAt(dash[c].dbRecords, i)
           updatedDbs == UpdatedDbs(c, db, Len(newRecords))
           store1 == StorePut(store, RequestPath(db.fileName), [records |-> newRecords])
       IN IF ~okContent
          THEN /\ UNCHANGED <<store, dash>>
               /\ Note(c, "handleDeleteRecord", TRUE, {RequestPath(db.fileName)})
          ELSE /\ dash' = [dash EXCEPT ![c].dbRecords = newRecords,
                                       ![c].musicDatabases = updatedDbs]
               /\ store' = IF okReg
                           THEN StorePut(store1, RequestPath(DatabasesPath),
                                         [databases |-> updatedDbs])
                           ELSE store1
               /\ Note(c, "handleDeleteRecord", FALSE,
                       {RequestPath(db.fileName), RequestPath(DatabasesPath)})
    /\ UNCHANGED <<now, pc>> /\ AppFrame

\* A row of displayedRecords: `{ ...r, originalIndex: index }`, the index
\* counted from 0 as the code counts it.
DisplayedRecord(records, i) ==
    [f \in DOMAIN records[i] \cup {"originalIndex"} |->
        IF f = "originalIndex" THEN i - 1 ELSE records[i][f]]

\* The pencil button of a row: open the Edit Record form on the displayed row
\* (the form's record keeps the row's originalIndex property).
setEditingRecord(c, i) ==
    /\ TableShown(c)
    /\ i \in 1..Len(dash[c].dbRecords)
    /\ dash' = [dash EXCEPT ![c].editingRecord =
                   [record |-> DisplayedRecord(dash[c].dbRecords, i),
                    originalIndex |-> i]]
    /\ Quiet
    /\ UNCHANGED <<store, now, pc>> /\ AppFrame

\* Typing in the Nr and Title inputs of the Edit Record form.
editEditingRecord(c, nr, title) ==
    /\ Viewing(c)
    /\ ~IsNone(dash[c].editingRecord)
    /\ <<dash[c].editingRecord.record.nr, dash[c].editingRecord.record.title>>
           # <<nr, title>>
    /\ dash' = [dash EXCEPT ![c].editingRecord.record.nr = nr,
                            ![c].editingRecord.record.title = title]
    /\ Quiet
    /\ UNCHANGED <<store, now, pc>> /\ AppFrame

\* Cancel in the Edit Record form.
cancelEditRecord(c) ==
    /\ Viewing(c)
    /\ ~IsNone(dash[c].editingRecord)
    /\ dash' = [dash EXCEPT ![c].editingRecord = NoRecord]
    /\ Quiet
    /\ UNCHANGED <<store, now, pc>> /\ AppFrame

\* renderEditRecordModal: another record that already carries the Nr typed in.
ExistingNrOnEdit(c) ==
    {i \in 1..Len(dash[c].dbRecords) :
        /\ dash[c].dbRecords[i].nr = dash[c].editingRecord.record.nr
        /\ i # dash[c].editingRecord.originalIndex
        /\ dash[c].editingRecord.record.nr # <<>>}

SaveChangesEnabled(c) ==
    /\ ExistingNrOnEdit(c) = {}
    /\ dash[c].editingRecord.record.title # ""

\* handleUpdateRecord (submit of the Edit Record form).
handleUpdateRecord(c, ok) ==
    /\ Viewing(c)
    /\ ~IsNone(dash[c].editingRecord)
    /\ SaveChangesEnabled(c)
    /\ LET db == dash[c].viewingDatabase
           newRecords == [dash[c].dbRecords EXCEPT
                             ![dash[c].editingRecord.originalIndex] =
                                 dash[c].editingRecord.record]
       IN /\ IF ok
             THEN /\ store' = StorePut(store, RequestPath(db.fileName),
                                       [records |-> newRecords])
                  /\ dash' = [dash EXCEPT ![c].dbRecords = newRecords,
                                          ![c].editingRecord = NoRecord]
             ELSE UNCHANGED <<store, dash>>
          /\ Note(c, "handleUpdateRecord", ~ok, {RequestPath(db.fileName)})
    /\ UNCHANGED <<now, pc>> /\ AppFrame

(* --------------------------- the record table -------------------------- *)

\* The characters of the titles, composers and arrangers of the model, which
\* are kept as atoms.
Chars(str) ==
    CASE str = "" -> <<>>
      [] str = "a" -> <<"a">>
      [] str = "B" -> <<"B">>

\* String.prototype.includes.
includes(s, sub) ==
    \E i \in 0..(Len(s) - Len(sub)) : SubSeq(s, i + 1, i + Len(sub)) = sub

\* The place of a character in the collation order: digits before letters, a
\* letter at the place of its lower-case form.
CharRank(ch) ==
    IF \E i \in 1..10 : DigitChars[i] = ch
    THEN CHOOSE i \in 1..10 : DigitChars[i] = ch
    ELSE 10 + (CHOOSE i \in 1..26 : LowerChars[i] = LowerChar(ch))

\* The comparison by character ranks, a prefix before what extends it.
RECURSIVE CompareChars(_, _, _)
CompareChars(a, b, i) ==
    IF i > Len(a) /\ i > Len(b) THEN 0
    ELSE IF i > Len(a) THEN -1
    ELSE IF i > Len(b) THEN 1
    ELSE IF CharRank(a[i]) < CharRank(b[i]) THEN -1
    ELSE IF CharRank(a[i]) > CharRank(b[i]) THEN 1
    ELSE CompareChars(a, b, i + 1)

\* a.localeCompare(b, undefined, { numeric: true }) on strings of digits and
\* letters: two runs of digits compare as numbers.
localeCompare(a, b) ==
    IF /\ a # <<>> /\ b # <<>>
       /\ \A i \in 1..Len(a) : IsDigit(a[i])
       /\ \A i \in 1..Len(b) : IsDigit(b[i])
    THEN IF parseInt(a) < parseInt(b) THEN -1
         ELSE IF parseInt(a) > parseInt(b) THEN 1 ELSE 0
    ELSE CompareChars(a, b, 1)

SearchTerms == {<<>>, <<"1">>, <<"b">>}
SortKeys == {"nr", "title"}

\* `(a[sortConfig.key] || '').toString()`.
SortValue(r, key) == IF key = "nr" THEN r.nr ELSE Chars(r[key])

\* The filter of displayedRecords: the lower-cased term is part of the
\* lower-cased title, composer, nr or arranged.
MatchesSearch(r, term) ==
    \/ includes(toLowerCase(Chars(r.title)), toLowerCase(term))
    \/ includes(toLowerCase(Chars(r.composer)), toLowerCase(term))
    \/ includes(toLowerCase(r.nr), toLowerCase(term))
    \/ includes(toLowerCase(Chars(r.arranged)), toLowerCase(term))

\* Array.prototype.sort (stable) with the comparator of displayedRecords.
SortRows(rows, sortConfig) ==
    LET Cmp(x, y) ==
            IF sortConfig.direction = "asc"
            THEN localeCompare(SortValue(x, sortConfig.key), SortValue(y, sortConfig.key))
            ELSE localeCompare(SortValue(y, sortConfig.key), SortValue(x, sortConfig.key))
        Before(i, j) == Cmp(rows[i], rows[j]) < 0 \/ (Cmp(rows[i], rows[j]) = 0 /\ i < j)
        Pos(i) == Cardinality({j \in 1..Len(rows) : Before(j, i)}) + 1
    IN [k \in 1..Len(rows) |-> rows[CHOOSE i \in 1..Len(rows) : Pos(i) = k]]

\* A form of displayedRecords that numbers the rows after filtering them.
displayedRecordsIndexedAfterFilter(c) ==
    LET Match(r) == MatchesSearch(r, dash[c].searchTerm)
        filtered == SelectSeq(dash[c].dbRecords, Match)
        rows == [i \in 1..Len(filtered) |-> DisplayedRecord(filtered, i)]
    IN IF IsNone(dash[c].sortConfig) THEN rows ELSE SortRows(rows, dash[c].sortConfig)

\* displayedRecords: every record with its index in dbRecords as
\* originalIndex, then filtered by the search term, then sorted.
displayedRecords(c) ==
    LET rows == [i \in 1..Len(dash[c].dbRecords) |-> DisplayedRecord(dash[c].dbRecords, i)]
        Match(r) == MatchesSearch(r, dash[c].searchTerm)
        filtered == SelectSeq(rows, Match)
    IN IF IsNone(dash[c].sortConfig) THEN filtered
       ELSE SortRows(filtered, dash[c].sortConfig)

\* Typing in the search box, or its clear button.
setSearchTerm(c, term) ==
    /\ TableShown(c)
    /\ dash[c].searchTerm # term
    /\ dash' = [dash EXCEPT ![c].searchTerm = term]
    /\ Quiet
    /\ UNCHANGED <<store, now, pc>> /\ AppFrame

\* handleSort: a click on a column header.
handleSort(c, key) ==
    /\ TableShown(c)
    /\ dash' = [dash EXCEPT ![c].sortConfig =
                   IF ~IsNone(@) /\ @.key = key
                   THEN [key |-> key,
                         direction |-> IF @.direction = "asc" THEN "desc" ELSE "asc"]
                   ELSE [key |-> key, direction |-> "asc"]]
    /\ Quiet
    /\ UNCHANGED <<store, now, pc>> /\ AppFrame

\* The pencil and the bin of the k-th displayed row.
clickEditRow(c, k) ==
    /\ TableShown(c)
    /\ k \in 1..Len(displayedRecords(c))
    /\ setEditingRecord(c, displayedRecords(c)[k].originalIndex + 1)

clickDeleteRow(c, k, okContent, okReg) ==
    /\ TableShown(c)
    /\ k \in 1..Len(displayedRecords(c))
    /\ handleDeleteRecord(c, displayedRecords(c)[k].originalIndex + 1, okContent, okReg)

(* ---------------- record handlers, awaited step by step ---------------- *)

\* The record handlers again, in two steps each: the call up to its
\* `await service.uploadJson(...)`, and the return of that upload.  A handler
\* works on the dbRecords, musicDatabases and viewingDatabase of the render
\* its button belongs to; pc keeps them for every upload that is awaited.
Pending(c) == IF pc[c].op = "records" THEN pc[c].pending ELSE <<>>
FormBusy(c) == \E k \in 1..Len(Pending(c)) : Pending(c)[k].kind # "delete"

Await(c, kind, index, record) ==
    /\ Len(Pending(c)) < MaxPending
    /\ pc' = [pc EXCEPT ![c] =
                 [op |-> "records",
                  pending |-> Append(Pending(c),
                                 [kind |-> kind, index |-> index, record |-> record,
                                  db |-> dash[c].viewingDatabase,
                                  dbRecords |-> dash[c].dbRecords,
                                  musicDatabases |-> dash[c].musicDatabases])]]
    /\ Quiet
    /\ UNCHANGED <<store, now, dash>> /\ AppFrame

\* The library view renders: the filter of displayedRecords reads r.title of
\* every element of dbRecords and throws on a null one.
TableRenders(c) == \A i \in 1..Len(dash[c].dbRecords) : ~IsNull(dash[c].dbRecords[i])

\* The bin of the row whose originalIndex is i; the bins stay enabled while an
\* upload is awaited.
startDeleteRecord(c, i) ==
    /\ TableShown(c)
    /\ TableRenders(c)
    /\ i \in 1..Len(dash[c].dbRecords)
    /\ Await(c, "delete", i, dash[c].dbRecords[i])

\* Submit of the Edit Record form; its button shows isLoading while the
\* form's own upload is awaited.
startUpdateRecord(c) ==
    /\ Viewing(c)
    /\ TableRenders(c)
    /\ ~IsNone(dash[c].editingRecord)
    /\ SaveChangesEnabled(c)
    /\ ~FormBusy(c)
    /\ Await(c, "update", dash[c].editingRecord.originalIndex, dash[c].editingRecord.record)

\* `array[index] = value`: an index past the end lengthens the array, and
\* JSON.stringify writes null for the elements left out.
SetAt(s, i, v) ==
    [j \in 1..(IF i > Len(s) THEN i ELSE Len(s)) |->
        IF j = i THEN v ELSE IF j <= Len(s) THEN s[j] ELSE NullDoc]

\* newRecords as the handler computes it from the dbRecords it holds.
NewRecords(m) ==
    CASE m.kind = "delete" -> RemoveAt(m.dbRecords, m.index)
      [] m.kind = "update" -> SetAt(m.dbRecords, m.index, m.record)

\* updateDatabaseRegistryCount on the musicDatabases the handler holds.
UpdatedDbsOf(m) ==
    [i \in 1..Len(m.musicDatabases) |->
        IF m.musicDatabases[i].id = m.db.id
        THEN [m.musicDatabases[i] EXCEPT !.recordCount = Len(NewRecords(m))]
        ELSE m.musicDatabases[i]]

\* The upload of the k-th awaited handler returns, and the handler runs to
\* its end: setDbRecords, the form closed, then updateDatabaseRegistryCount
\* (not for an edit), whose failed upload is swallowed.
recordUploadReturns(c, k, okContent, okReg) ==
    /\ k \in 1..Len(Pending(c))
    /\ LET m == Pending(c)[k]
           rest == RemoveAt(Pending(c), k)
           store1 == StorePut(store, RequestPath(m.db.fileName),
                              [records |-> NewRecords(m)])
           counted == m.kind # "update"
       IN /\ pc' = [pc EXCEPT ![c] = IF rest = <<>> THEN Idle
                                      ELSE [op |-> "records", pending |-> rest]]
          /\ IF ~okContent
             THEN /\ UNCHANGED <<store, dash>>
                  /\ Note(c, "recordUploadReturns", TRUE, {RequestPath(m.db.fileName)})
             ELSE /\ dash' = [dash EXCEPT
                        ![c].dbRecords = NewRecords(m),
                        ![c].editingRecord = IF m.kind = "update" THEN NoRecord ELSE @,
                        ![c].musicDatabases = IF counted THEN UpdatedDbsOf(m) ELSE @]
                  /\ store' = IF counted /\ okReg
                              THEN StorePut(store1, RequestPath(DatabasesPath),
                                            [databases |-> UpdatedDbsOf(m)])
                              ELSE store1
                  /\ Note(c, "recordUploadReturns", FALSE,
                          {RequestPath(m.db.fileName)}
                          \cup (IF counted THEN {RequestPath(DatabasesPath)} ELSE {}))
    /\ UNCHANGED now /\ AppFrame

(* ---------------------------- file manager ----------------------------- *)

\* The editor's text: a JSON document, or text JSON.parse rejects.
InvalidJson == [invalid |-> TRUE]
newFileContent == [key |-> "value"]
newFileName == <<"n","e","w","_","f","i","l","e">> \o JsonExt
\* Names typed for a new file, and documents typed into the editor.
EditorNames == {newFileName}
EditorDocs == {newFileContent, InvalidJson}

FilesTab(c) == OnTab(c, "files") /\ canManageFiles(c)
EditorOpen(c) == PageShown(c) /\ ~IsNone(dash[c].editingFile)

\* "+ New JSON"
handleCreateFile(c) ==
    /\ FilesTab(c)
    /\ dash' = [dash EXCEPT ![c].editingFile =
                   [name |-> newFileName, content |-> newFileContent, isNew |-> TRUE]]
    /\ Quiet
    /\ UNCHANGED <<store, now, pc>> /\ AppFrame

\* "Edit" on a listed file: download it by the path_lower the listing gave.
handleEditFile(c, i, ok) ==
    /\ FilesTab(c)
    /\ i \in 1..Len(dash[c].files)
    /\ LET file == dash[c].files[i] IN
       /\ IF ok
          THEN dash' = [dash EXCEPT ![c].editingFile =
                           [name |-> file.name,
                            content |-> StoreGet(store, RequestPath(file.path_lower)),
                            isNew |-> FALSE]]
          ELSE UNCHANGED dash
       /\ Note(c, "handleEditFile", ~ok, {RequestPath(file.path_lower)})
    /\ UNCHANGED <<store, now, pc>> /\ AppFrame

EditorNameChoices(c) ==
    IF IsNone(dash[c].editingFile) THEN {}
    ELSE EditorNames \cup {dash[c].editingFile.name}

\* Typing in the editor: the text, and the name of a new file.
setEditingFile(c, name, content) ==
    /\ EditorOpen(c)
    /\ name = dash[c].editingFile.name \/ dash[c].editingFile.isNew
    /\ <<name, content>> # <<dash[c].editingFile.name, dash[c].editingFile.content>>
    /\ dash' = [dash EXCEPT ![c].editingFile.name = name,
                            ![c].editingFile.content = content]
    /\ Quiet
    /\ UNCHANGED <<store, now, pc>> /\ AppFrame

cancelEditFile(c) ==
    /\ EditorOpen(c)
    /\ dash' = [dash EXCEPT ![c].editingFile = NoFile]
    /\ Quiet
    /\ UNCHANGED <<store, now, pc>> /\ AppFrame

\* `'/' + name`, with '.json' appended when the name does not end with it.
SavePath(name) ==
    LET path == <<"/">> \o name
    IN IF endsWith(path, JsonExt) THEN path ELSE path \o JsonExt

\* "Save JSON": parse, upload, close the editor and refresh the list.
handleSaveFile(c, ok, okFiles) ==
    /\ EditorOpen(c)
    /\ LET parsed == dash[c].editingFile.content
           path == SavePath(dash[c].editingFile.name)
           store1 == StorePut(store, RequestPath(path), parsed)
       IN IF "invalid" \in DOMAIN parsed
          THEN /\ UNCHANGED <<store, dash>>
               /\ Note(c, "handleSaveFile", TRUE, {})
          ELSE IF ~ok
          THEN /\ UNCHANGED <<store, dash>>
               /\ Note(c, "handleSaveFile", TRUE, {RequestPath(path)})
          ELSE /\ store' = store1
               /\ dash' = [dash EXCEPT ![c].editingFile = NoFile,
                                       ![c].files = FilesShown(c, @, store1, okFiles)]
               /\ Note(c, "handleSaveFile", FALSE, {RequestPath(path), RequestPath(<<>>)})
    /\ UNCHANGED <<now, pc>> /\ AppFrame

\* "Delete" on a listed file; delete_v2 fails when the file is gone.
handleDeleteFile(c, i, ok, okFiles) ==
    /\ FilesTab(c)
    /\ i \in 1..Len(dash[c].files)
    /\ LET path == dash[c].files[i].path_lower
           deleted == ok /\ StoreHas(store, RequestPath(path))
           store1 == StoreDel(store, RequestPath(path))
       IN /\ IF deleted
             THEN /\ store' = store1
                  /\ dash' = [dash EXCEPT ![c].files = FilesShown(c, @, store1, okFiles)]
             ELSE UNCHANGED <<store, dash>>
          /\ Note(c, "handleDeleteFile", ~deleted,
                  {RequestPath(path)} \cup (IF deleted THEN {RequestPath(<<>>)} ELSE {}))
    /\ UNCHANGED <<now, pc>> /\ AppFrame

(* ------------------------------- users --------------------------------- *)

UsersTab(c) == OnTab(c, "users")

\* The roles offered by the role select, and 'user', the form's initial value.
RoleOptions(c) ==
    {"user"} \cup ({dash[c].roles[i].id : i \in 1..Len(dash[c].roles)}
                       \ (IF isGroupAdmin(c) THEN {} ELSE {"group_admin"}))

\* A form of `currentUsers` that is the list shown to the caller.
UsersOfShown(userData) == dash[1].users

\* `userData?.users || []`
UsersOf(userData) == IF HasArray(userData, "users") THEN userData.users ELSE <<>>

\* A form of the duplicate check that finds no user.
UserExistsNever(currentUsers, username) == FALSE

\* `currentUsers.find(u => u.username === newUser.username)` as a condition.
UserExists(currentUsers, username) == ~IsNone(FindUser(currentUsers, username))

\* handleAddUser up to its upload: download /users.json and refuse a user name
\* that is already in it.  The group admin ticks associations of the loaded
\* list; an admin's own associationIds are used instead.
handleAddUser(c, username, password, role, assocIds, ok) ==
    /\ UsersTab(c)
    /\ role \in RoleOptions(c)
    /\ assocIds \subseteq Ids(dash[c].associations)
    /\ isGroupAdmin(c) \/ assocIds = {}
    /\ LET currentUsers == UsersOf(StoreGet(store, RequestPath(UsersPath)))
           finalAssocIds == IF isAdmin(c) /\ ~isGroupAdmin(c)
                            THEN user(c).associationIds ELSE assocIds
           userObj == [username |-> username, passwordHash |-> hashPassword(password),
                       role |-> role, associationIds |-> finalAssocIds]
           exists == UserExists(currentUsers, username)
       IN /\ ok => Len(currentUsers) < MaxUsers
          /\ pc' = IF ok /\ ~exists
                   THEN [pc EXCEPT ![c] = [op |-> "handleAddUser",
                                           updatedUsers |-> Append(currentUsers, userObj)]]
                   ELSE pc
          /\ Note(c, "handleAddUser", ~ok \/ exists, {RequestPath(UsersPath)})
    /\ UNCHANGED <<store, now, dash>> /\ AppFrame

\* handleDeleteUser up to its upload, on a user of the shown list.
handleDeleteUser(c, i, ok) ==
    /\ UsersTab(c)
    /\ i \in 1..Len(dash[c].users)
    /\ dash[c].users[i].username # user(c).username
    /\ LET username == dash[c].users[i].username
           currentUsers == UsersOf(StoreGet(store, RequestPath(UsersPath)))
           Keep(u) == u.username # username
       IN /\ pc' = IF ok
                   THEN [pc EXCEPT ![c] = [op |-> "handleDeleteUser",
                                           updatedUsers |-> SelectSeq(currentUsers, Keep)]]
                   ELSE pc
          /\ Note(c, "handleDeleteUser", ~ok, {RequestPath(UsersPath)})
    /\ UNCHANGED <<store, now, dash>> /\ AppFrame

\* The association sets the Edit User form can hold: the user's own ids with
\* any of the offered associations ticked or unticked.
EditAssocChoices(c, u) ==
    LET offered == Ids(getAvailableAssociations(c))
    IN {(u.associationIds \ offered) \cup ticked : ticked \in SUBSET offered}

\* handleUpdateUser up to its upload, for a user of the shown list
\* (handleEditUserClick).  An empty password keeps the stored hash.
handleUpdateUser(c, i, editRole, editAssocIds, editPassword, ok) ==
    /\ UsersTab(c)
    /\ i \in 1..Len(dash[c].users)
    /\ LET userToEdit == dash[c].users[i]
           currentUsers == UsersOf(StoreGet(store, RequestPath(UsersPath)))
           Upd(u) == IF u.username = userToEdit.username
                     THEN [u EXCEPT !.passwordHash = IF editPassword # ""
                                                     THEN hashPassword(editPassword)
                                                     ELSE @,
                                    !.role = editRole,
                                    !.associationIds = editAssocIds]
                     ELSE u
       IN /\ editRole \in RoleOptions(c) \cup {userToEdit.role}
          /\ editAssocIds \in EditAssocChoices(c, userToEdit)
          /\ pc' = IF ok
                   THEN [pc EXCEPT ![c] = [op |-> "handleUpdateUser",
                                           updatedUsers |->
                                               [k \in 1..Len(currentUsers) |->
                                                   Upd(currentUsers[k])]]]
                   ELSE pc
          /\ Note(c, "handleUpdateUser", ~ok, {RequestPath(UsersPath)})
    /\ UNCHANGED <<store, now, dash>> /\ AppFrame

UserOps == {"handleAddUser", "handleDeleteUser", "handleUpdateUser"}

\* The rest of a user handler: upload the whole list, then loadUsers.
uploadUsers(c, ok, okLoad) ==
    /\ pc[c].op \in UserOps
    /\ LET store1 == StorePut(store, RequestPath(UsersPath),
                              [users |-> pc[c].updatedUsers])
       IN IF ok
          THEN /\ store' = store1
               /\ dash' = [dash EXCEPT ![c].users =
                              UsersShown(c, @, StoreGet(store1, RequestPath(UsersPath)),
                                         okLoad)]
          ELSE UNCHANGED <<store, dash>>
    /\ pc' = [pc EXCEPT ![c] = Idle]
    /\ Note(c, pc[c].op, ~ok, {RequestPath(UsersPath)})
    /\ UNCHANGED now /\ AppFrame

(* ---------------------------- associations ----------------------------- *)

AssociationsTab(c) == OnTab(c, "associations") /\ canManageAssociations(c)

\* `assocData?.associations || []`
AssociationsOf(assocData) ==
    IF HasArray(assocData, "associations") THEN assocData.associations ELSE <<>>

AssociationNames == {"band"}

\* handleAddAssociation: the id is Date.now().toString().
handleAddAssociation(c, name, okLoad, okUpload) ==
    /\ AssociationsTab(c)
    /\ now < MaxTime
    /\ now' = now + 1
    /\ LET currentAssocs == AssociationsOf(StoreGet(store, RequestPath(AssociationsPath)))
           newAssocObj == [id |-> NatToStr(now'), name |-> name]
           updatedAssocs == Append(currentAssocs, newAssocObj)
       IN /\ Len(currentAssocs) < MaxAssociations
          /\ IF okLoad /\ okUpload
             THEN /\ store' = StorePut(store, RequestPath(AssociationsPath),
                                       [associations |-> updatedAssocs])
                  /\ dash' = [dash EXCEPT ![c].associations = updatedAssocs]
             ELSE UNCHANGED <<store, dash>>
          /\ Note(c, "handleAddAssociation", ~(okLoad /\ okUpload),
                  {RequestPath(AssociationsPath)})
    /\ UNCHANGED pc /\ AppFrame

\* handleDeleteAssociation on an association of the shown list.
handleDeleteAssociation(c, i, okLoad, okUpload) ==
    /\ AssociationsTab(c)
    /\ i \in 1..Len(dash[c].associations)
    /\ LET id == dash[c].associations[i].id
           currentAssocs == AssociationsOf(StoreGet(store, RequestPath(AssociationsPath)))
           Keep(a) == a.id # id
           updatedAssocs == SelectSeq(currentAssocs, Keep)
       IN /\ IF okLoad /\ okUpload
             THEN /\ store' = StorePut(store, RequestPath(AssociationsPath),
                                       [associations |-> updatedAssocs])
                  /\ dash' = [dash EXCEPT ![c].associations = updatedAssocs]
             ELSE UNCHANGED <<store, dash>>
          /\ Note(c, "handleDeleteAssociation", ~(okLoad /\ okUpload),
                  {RequestPath(AssociationsPath)})
    /\ UNCHANGED <<now, pc>> /\ AppFrame

(* --------------------------- specifications ---------------------------- *)

\* Connecting, initialising the account, logging in and out.  Oks holds the
\* outcomes the remote calls of these steps can have.
AppStep(c, Oks) ==
    \/ handleAuthFlow(c)
    \/ handleManualTokenLogin(c)
    \/ \E ok \in Oks : initializeDropbox(c, ok)
    \/ \E username \in Usernames, pass \in Passwords, ok \in Oks :
          handleAppLogin(c, username, pass, ok)
    \/ \E ok \in Oks : useEffect(c, ok, ok, ok, ok)
    \/ handleLogout(c)

\* The Add New Item form and the delete button of a row.
AddRecordStep(c) ==
    \/ handleOpenAddRecordModal(c)
    \/ \E nr \in NrInputs, title \in Titles : setNewRecordData(c, nr, title)
    \/ cancelAddRecord(c)
    \/ \E ok1, ok2 \in BOOLEAN : handleCreateRecord(c, ok1, ok2)
    \/ \E i \in 1..Len(dash[c].dbRecords), ok1, ok2 \in BOOLEAN :
          handleDeleteRecord(c, i, ok1, ok2)

\* The Edit Record form.
EditRecordStep(c) ==
    \/ \E i \in 1..Len(dash[c].dbRecords) : setEditingRecord(c, i)
    \/ \E nr \in NrInputs, title \in Titles : editEditingRecord(c, nr, title)
    \/ cancelEditRecord(c)
    \/ \E ok \in BOOLEAN : handleUpdateRecord(c, ok)

\* Libraries shared between associations: one browser session in which the
\* group admin sets up associations and a second user, and whoever is logged
\* in imports, lists and opens libraries and adds and deletes records.  A
\* remote call may fail where the failure aborts the handler; the calls that
\* follow a successful first call are answered.
Next ==
    \/ AppStep(1, BOOLEAN)
    \/ \E tab \in {"music", "users", "associations"} :
          handleNavClick(1, tab, TRUE, TRUE, TRUE, TRUE)
    \/ \E ok \in BOOLEAN : loadMusicDatabases(1, ok)
    \/ \E name \in AssociationNames, ok \in BOOLEAN :
          handleAddAssociation(1, name, ok, TRUE)
    \/ \E assocIds \in SUBSET Ids(dash[1].associations), ok \in BOOLEAN :
          handleAddUser(1, "bob", "pw", "admin", assocIds, ok)
    \/ uploadUsers(1, TRUE, TRUE)
    \/ \E name \in DatabaseNames, a \in Ids(dash[1].associations), ok \in BOOLEAN :
          handleSaveImport(1, name, a, <<>>, ok, TRUE, TRUE, TRUE)
    \/ \E i \in 1..Len(dash[1].musicDatabases), ok \in BOOLEAN :
          handleOpenDatabase(1, i, ok)
    \/ handleCloseDatabase(1)
    \/ handleOpenAddRecordModal(1)
    \/ \E title \in Titles : setNewRecordData(1, <<>>, title)
    \/ cancelAddRecord(1)
    \/ \E ok \in BOOLEAN : handleCreateRecord(1, ok, TRUE)
    \/ \E i \in 1..Len(dash[1].dbRecords), ok \in BOOLEAN :
          handleDeleteRecord(1, i, ok, TRUE)

Spec == Init /\ [][Next]_vars

\* The records of one library: the group admin creates an association,
\* imports a library and works on its records with both forms; every remote
\* call of the record handlers may fail.
NextRecords ==
    \/ AppStep(1, BOOLEAN)
    \/ \E tab \in {"music", "associations"}, ok \in BOOLEAN :
          handleNavClick(1, tab, ok, ok, ok, ok)
    \/ \E name \in AssociationNames :
          now < MaxTimeRecords /\ handleAddAssociation(1, name, TRUE, TRUE)
    \/ \E name \in DatabaseNames, a \in Ids(dash[1].associations),
          recs \in ImportSheets, ok1, ok2, ok3, ok4 \in BOOLEAN :
          now < MaxTimeRecords /\ handleSaveImport(1, name, a, recs, ok1, ok2, ok3, ok4)
    \/ \E i \in 1..Len(dash[1].musicDatabases), ok \in BOOLEAN :
          handleOpenDatabase(1, i, ok)
    \/ handleCloseDatabase(1)
    \/ AddRecordStep(1)
    \/ EditRecordStep(1)

SpecRecords == Init /\ [][NextRecords]_vars

\* The File Manager: the group admin creates an association, imports a
\* library, and lists, edits, saves and deletes the JSON files of the account,
\* the registry and the content files among them.
FileStep(c) ==
    \/ \E ok \in BOOLEAN : loadFiles(c, ok)
    \/ handleCreateFile(c)
    \/ \E i \in 1..Len(dash[c].files), ok \in BOOLEAN : handleEditFile(c, i, ok)
    \/ \E name \in EditorNameChoices(c), content \in EditorDocs :
          setEditingFile(c, name, content)
    \/ cancelEditFile(c)
    \/ \E ok \in BOOLEAN : handleSaveFile(c, ok, TRUE)
    \/ \E i \in 1..Len(dash[c].files), ok \in BOOLEAN : handleDeleteFile(c, i, ok, TRUE)

NextFiles ==
    \/ AppStep(1, BOOLEAN)
    \/ \E tab \in {"music", "files", "associations"} :
          handleNavClick(1, tab, TRUE, TRUE, TRUE, TRUE)
    \/ \E name \in AssociationNames :
          now < MaxTimeRecords /\ handleAddAssociation(1, name, TRUE, TRUE)
    \/ \E name \in DatabaseNames, a \in Ids(dash[1].associations), recs \in ImportSheets :
          now < MaxTimeRecords /\ handleSaveImport(1, name, a, recs, TRUE, TRUE, TRUE, TRUE)
    \/ \E i \in 1..Len(dash[1].musicDatabases), ok1, ok2 \in BOOLEAN :
          handleDeleteDatabase(1, i, ok1, ok2, TRUE, TRUE, TRUE)
    \/ FileStep(1)

SpecFiles == Init /\ [][NextFiles]_vars

\* Members: one browser session in which associations are created and
\* deleted and the users are added, edited and deleted, by whoever is logged
\* in.  A user handler is two steps, its download and its upload.
AssociationStep(c) ==
    \/ \E name \in AssociationNames, ok \in BOOLEAN :
          handleAddAssociation(c, name, ok, TRUE)
    \/ \E i \in 1..Len(dash[c].associations), ok \in BOOLEAN :
          handleDeleteAssociation(c, i, ok, TRUE)

NextMembers ==
    \/ AppStep(1, BOOLEAN)
    \/ \E tab \in {"music", "users", "associations"} :
          handleNavClick(1, tab, TRUE, TRUE, TRUE, TRUE)
    \/ AssociationStep(1)
    \/ \E role \in {"user", "admin"},
          assocIds \in SUBSET Ids(dash[1].associations), ok \in BOOLEAN :
          handleAddUser(1, "bob", "pw", role, assocIds, ok)
    \/ \E i \in 1..Len(dash[1].users), ok \in BOOLEAN : handleDeleteUser(1, i, ok)
    \/ \E i \in 1..Len(dash[1].users),
          assocIds \in SUBSET Ids(dash[1].associations), ok \in BOOLEAN :
          handleUpdateUser(1, i, dash[1].users[i].role, assocIds, "", ok)
    \/ \E ok \in BOOLEAN : uploadUsers(1, ok, TRUE)

SpecMembers == Init /\ [][NextMembers]_vars

\* Users under two browser sessions on the same account: either session adds,
\* edits and deletes users, and the downloads and uploads of the two sessions
\* interleave.
NextUsers ==
    \/ \E c \in Clients : AppStep(c, {TRUE})
    \/ \E c \in Clients, tab \in {"music", "users"} :
          handleNavClick(c, tab, TRUE, TRUE, TRUE, TRUE)
    \/ \E c \in Clients, username \in Usernames, ok \in BOOLEAN :
          handleAddUser(c, username, "pw", "user", {}, ok)
    \/ \E c \in Clients : \E i \in 1..Len(dash[c].users), ok \in BOOLEAN :
          handleDeleteUser(c, i, ok)
    \/ \E c \in Clients : \E i \in 1..Len(dash[c].users), ok \in BOOLEAN :
          handleUpdateUser(c, i, dash[c].users[i].role, {}, "pw", ok)
    \/ \E c \in Clients, ok \in BOOLEAN : uploadUsers(c, ok, TRUE)

SpecUsers == Init /\ [][NextUsers]_vars

\* The permission filters on their own: a session that has just logged in,
\* for every user of an account whose users, associations and registry are
\* drawn from the values the handlers above can have written; the session
\* mounts the Dashboard and moves between its tabs.
ListAssociations == << [id |-> NatToStr(1), name |-> "band"],
                       [id |-> NatToStr(2), name |-> "band"] >>
ListUser(username, role, assocIds) ==
    [username |-> username, passwordHash |-> hashPassword("pw"),
     role |-> role, associationIds |-> assocIds]
ListUsersOf(username) ==
    {<<>>} \cup {<<ListUser(username, role, assocIds)>> :
                    role \in {"user", "admin", "group_admin"},
                    assocIds \in SUBSET Ids(ListAssociations)}
ListDatabase(t, associationId) ==
    [id |-> FileId(t), name |-> "lib", associationId |-> associationId,
     fileName |-> MusicFileName(FileId(t)), recordCount |-> 0]

InitLists ==
    /\ \E bob \in ListUsersOf("bob"), eve \in ListUsersOf("eve"),
          n \in 0..Len(ListAssociations),
          a3, a4 \in Ids(ListAssociations) :
          store = [k \in {StoreKey(RolesPath), StoreKey(UsersPath),
                          StoreKey(AssociationsPath), StoreKey(DatabasesPath),
                          StoreKey(MusicFileName(FileId(3))),
                          StoreKey(MusicFileName(FileId(4)))} |->
                      CASE k = StoreKey(RolesPath) -> [roles |-> defaultRoles]
                        [] k = StoreKey(UsersPath) -> [users |-> <<adminUser>> \o bob \o eve]
                        [] k = StoreKey(AssociationsPath) ->
                              [associations |-> SubSeq(ListAssociations, 1, n)]
                        [] k = StoreKey(DatabasesPath) ->
                              [databases |-> <<ListDatabase(3, a3), ListDatabase(4, a4)>>]
                        [] OTHER -> [records |-> <<>>]]
    /\ now = MaxTime
    /\ urlCode = [c \in Clients |-> FALSE]
    /\ localStorage = [c \in Clients |-> NoToken]
    /\ \E u \in 1..Len(store[StoreKey(UsersPath)].users) :
          authState = [c \in Clients |->
                          IF c = 1
                          THEN [authStateInit EXCEPT
                                   !.isAuthenticated = TRUE,
                                   !.currentUser = store[StoreKey(UsersPath)].users[u],
                                   !.status = "dashboard"]
                          ELSE authStateInit]
    /\ dropboxService = [c \in Clients |->
                            IF c = 1 THEN [accessToken |-> "T_manual"] ELSE NoService]
    /\ pc = [c \in Clients |-> IF c = 1 THEN [op |-> "useEffect"] ELSE Idle]
    /\ dash = [c \in Clients |-> DashInit]
    /\ sent = {RequestPath(UsersPath)}
    /\ lastOp = [client |-> 1, op |-> "handleAppLogin", alerted |-> FALSE,
                 token |-> "T_manual"]

NextLists ==
    \/ \E ok1, ok2 \in BOOLEAN : useEffect(1, ok1, ok1, ok2, TRUE)
    \/ \E tab \in {"music", "users", "associations"}, ok1, ok2 \in BOOLEAN :
          handleNavClick(1, tab, ok1, ok1, ok2, TRUE)
    \/ \E ok \in BOOLEAN : loadMusicDatabases(1, ok)

SpecLists == InitLists /\ [][NextLists]_vars

\* The session: every way to connect and to log in, with remote calls that
\* can fail, tokens that expire, and the group admin adding associations in
\* between.
AuthStep(c) ==
    \/ \E ok \in BOOLEAN : exchangeCodeForToken(c, ok)
    \/ \E ok \in BOOLEAN : refreshAccessToken(c, ok)
    \/ \E ok \in BOOLEAN : resumeAppLogin(c, ok)
    \/ tokenExpires(c)
    \/ handleResetDropbox(c)
    \/ reload(c)
    \/ handleConnectOAuth(c)

NextAuth ==
    \/ AppStep(1, BOOLEAN)
    \/ AuthStep(1)
    \/ \E tab \in {"music", "associations"} :
          handleNavClick(1, tab, TRUE, TRUE, TRUE, TRUE)
    \/ /\ now < MaxTimeRecords
       /\ \E name \in AssociationNames : handleAddAssociation(1, name, TRUE, TRUE)

SpecAuth == Init /\ [][NextAuth]_vars

\* The user handlers on their own: a session that has just logged in to an
\* account that holds the group admin, the admin bob of association 1 and
\* possibly a third user, for each of them as the caller.
InitUserWrites ==
    /\ \E eve \in ListUsersOf("eve") :
          store = [k \in {StoreKey(RolesPath), StoreKey(UsersPath),
                          StoreKey(AssociationsPath), StoreKey(DatabasesPath)} |->
                      CASE k = StoreKey(RolesPath) -> [roles |-> defaultRoles]
                        [] k = StoreKey(UsersPath) ->
                              [users |-> <<adminUser,
                                           ListUser("bob", "admin", {NatToStr(1)})>>
                                         \o eve]
                        [] k = StoreKey(AssociationsPath) ->
                              [associations |-> ListAssociations]
                        [] OTHER -> [databases |-> <<>>]]
    /\ now = MaxTime
    /\ urlCode = [c \in Clients |-> FALSE]
    /\ localStorage = [c \in Clients |-> NoToken]
    /\ \E u \in 1..Len(store[StoreKey(UsersPath)].users) :
          authState = [c \in Clients |->
                          IF c = 1
                          THEN [authStateInit EXCEPT
                                   !.isAuthenticated = TRUE,
                                   !.currentUser = store[StoreKey(UsersPath)].users[u],
                                   !.status = "dashboard"]
                          ELSE authStateInit]
    /\ dropboxService = [c \in Clients |->
                            IF c = 1 THEN [accessToken |-> "T_manual"] ELSE NoService]
    /\ pc = [c \in Clients |-> IF c = 1 THEN [op |-> "useEffect"] ELSE Idle]
    /\ dash = [c \in Clients |-> DashInit]
    /\ sent = {RequestPath(UsersPath)}
    /\ lastOp = [client |-> 1, op |-> "handleAppLogin", alerted |-> FALSE,
                 token |-> "T_manual"]

NextUserWrites ==
    \/ useEffect(1, TRUE, TRUE, TRUE, TRUE)
    \/ \E tab \in {"music", "users"} : handleNavClick(1, tab, TRUE, TRUE, TRUE, TRUE)
    \/ \E username \in {"bob", "eve"}, ok \in BOOLEAN :
          handleAddUser(1, username, "pw", "user", {}, ok)
    \/ \E i \in 1..Len(dash[1].users), ok \in BOOLEAN : handleDeleteUser(1, i, ok)
    \/ \E i \in 1..Len(dash[1].users), ok \in BOOLEAN :
          handleUpdateUser(1, i, dash[1].users[i].role,
                           dash[1].users[i].associationIds, "admin123", ok)
    \/ \E ok, okLoad \in BOOLEAN : uploadUsers(1, ok, okLoad)

SpecUserWrites == InitUserWrites /\ [][NextUserWrites]_vars

\* Imports into an account that has libraries already: a session of the group
\* admin or of an association's admin, just logged in, imports libraries one
\* after the other, and every remote call of an import may fail.
InitImport ==
    /\ \E bob \in {<<>>, <<ListUser("bob", "admin", {NatToStr(1)})>>},
          dbs \in {<<>>, <<ListDatabase(1, NatToStr(1))>>} :
          store = [k \in {StoreKey(RolesPath), StoreKey(UsersPath),
                          StoreKey(AssociationsPath), StoreKey(DatabasesPath)}
                         \cup {StoreKey(dbs[i].fileName) : i \in 1..Len(dbs)} |->
                      CASE k = StoreKey(RolesPath) -> [roles |-> defaultRoles]
                        [] k = StoreKey(UsersPath) -> [users |-> <<adminUser>> \o bob]
                        [] k = StoreKey(AssociationsPath) ->
                              [associations |-> ListAssociations]
                        [] k = StoreKey(DatabasesPath) -> [databases |-> dbs]
                        [] OTHER -> [records |-> <<>>]]
    /\ now = 1
    /\ urlCode = [c \in Clients |-> FALSE]
    /\ localStorage = [c \in Clients |-> NoToken]
    /\ \E u \in 1..Len(store[StoreKey(UsersPath)].users) :
          authState = [c \in Clients |->
                          IF c = 1
                          THEN [authStateInit EXCEPT
                                   !.isAuthenticated = TRUE,
                                   !.currentUser = store[StoreKey(UsersPath)].users[u],
                                   !.status = "dashboard"]
                          ELSE authStateInit]
    /\ dropboxService = [c \in Clients |->
                            IF c = 1 THEN [accessToken |-> "T_manual"] ELSE NoService]
    /\ pc = [c \in Clients |-> IF c = 1 THEN [op |-> "useEffect"] ELSE Idle]
    /\ dash = [c \in Clients |-> DashInit]
    /\ sent = {RequestPath(UsersPath)}
    /\ lastOp = [client |-> 1, op |-> "handleAppLogin", alerted |-> FALSE,
                 token |-> "T_manual"]

NextImport ==
    \/ useEffect(1, TRUE, TRUE, TRUE, TRUE)
    \/ \E ok \in BOOLEAN : loadMusicDatabases(1, ok)
    \/ \E name \in DatabaseNames, a \in Ids(dash[1].associations),
          recs \in ImportSheets, okContent, okReg, okUpload, okLoad \in BOOLEAN :
          handleSaveImport(1, name, a, recs, okContent, okReg, okUpload, okLoad)

SpecImport == InitImport /\ [][NextImport]_vars

\* Deleting libraries: a session of the group admin or of an association's
\* admin, just logged in, on an account with two libraries; it deletes
\* libraries, and the group admin also deletes files in the File Manager, a
\* library's content file among them; every remote call may fail.
InitDelete ==
    /\ \E bob \in {<<>>, <<ListUser("bob", "admin", {NatToStr(1)})>>},
          a2 \in Ids(ListAssociations) :
          store = [k \in {StoreKey(RolesPath), StoreKey(UsersPath),
                          StoreKey(AssociationsPath), StoreKey(DatabasesPath),
                          StoreKey(MusicFileName(FileId(1))),
                          StoreKey(MusicFileName(FileId(2)))} |->
                      CASE k = StoreKey(RolesPath) -> [roles |-> defaultRoles]
                        [] k = StoreKey(UsersPath) -> [users |-> <<adminUser>> \o bob]
                        [] k = StoreKey(AssociationsPath) ->
                              [associations |-> ListAssociations]
                        [] k = StoreKey(DatabasesPath) ->
                              [databases |-> <<ListDatabase(1, NatToStr(1)),
                                               ListDatabase(2, a2)>>]
                        [] OTHER -> [records |-> <<>>]]
    /\ now = MaxTime
    /\ urlCode = [c \in Clients |-> FALSE]
    /\ localStorage = [c \in Clients |-> NoToken]
    /\ \E u \in 1..Len(store[StoreKey(UsersPath)].users) :
          authState = [c \in Clients |->
                          IF c = 1
                          THEN [authStateInit EXCEPT
                                   !.isAuthenticated = TRUE,
                                   !.currentUser = store[StoreKey(UsersPath)].users[u],
                                   !.status = "dashboard"]
                          ELSE authStateInit]
    /\ dropboxService = [c \in Clients |->
                            IF c = 1 THEN [accessToken |-> "T_manual"] ELSE NoService]
    /\ pc = [c \in Clients |-> IF c = 1 THEN [op |-> "useEffect"] ELSE Idle]
    /\ dash = [c \in Clients |-> DashInit]
    /\ sent = {RequestPath(UsersPath)}
    /\ lastOp = [client |-> 1, op |-> "handleAppLogin", alerted |-> FALSE,
                 token |-> "T_manual"]

NextDelete ==
    \/ useEffect(1, TRUE, TRUE, TRUE, TRUE)
    \/ \E tab \in {"music", "files"}, ok \in BOOLEAN :
          handleNavClick(1, tab, TRUE, TRUE, ok, ok)
    \/ \E i \in 1..Len(dash[1].files), ok \in BOOLEAN : handleDeleteFile(1, i, ok, TRUE)
    \/ \E i \in 1..Len(dash[1].musicDatabases),
          okDel, okReg, okUpload, okLoad \in BOOLEAN :
          handleDeleteDatabase(1, i, okDel, okReg, okUpload, okLoad, okLoad)

SpecDelete == InitDelete /\ [][NextDelete]_vars

\* The record table: a session of the group admin, just logged in, on an
\* account with one library of three records; it opens the library, searches,
\* sorts, and edits and deletes displayed rows.
TableContents ==
    {<<MusicRecord(<<"2">>, "a"), MusicRecord(<<"1", "0">>, "B"), MusicRecord(<<"1">>, "B")>>,
     <<MusicRecord(<<"1", "0">>, "B"), MusicRecord(<<"2">>, "a"), MusicRecord(<<"1">>, "B")>>}

InitTable ==
    /\ \E records \in TableContents :
          store = [k \in {StoreKey(RolesPath), StoreKey(UsersPath),
                             StoreKey(AssociationsPath), StoreKey(DatabasesPath),
                             StoreKey(MusicFileName(FileId(1)))} |->
                      CASE k = StoreKey(RolesPath) -> [roles |-> defaultRoles]
                        [] k = StoreKey(UsersPath) -> [users |-> <<adminUser>>]
                        [] k = StoreKey(AssociationsPath) ->
                              [associations |-> ListAssociations]
                        [] k = StoreKey(DatabasesPath) ->
                              [databases |-> <<[ListDatabase(1, NatToStr(1))
                                                  EXCEPT !.recordCount = 3]>>]
                        [] OTHER -> [records |-> records]]
    /\ now = MaxTime
    /\ urlCode = [c \in Clients |-> FALSE]
    /\ localStorage = [c \in Clients |-> NoToken]
    /\ authState = [c \in Clients |->
                       IF c = 1
                       THEN [authStateInit EXCEPT !.isAuthenticated = TRUE,
                                                  !.currentUser = adminUser,
                                                  !.status = "dashboard"]
                       ELSE authStateInit]
    /\ dropboxService = [c \in Clients |->
                            IF c = 1 THEN [accessToken |-> "T_manual"] ELSE NoService]
    /\ pc = [c \in Clients |-> IF c = 1 THEN [op |-> "useEffect"] ELSE Idle]
    /\ dash = [c \in Clients |-> DashInit]
    /\ sent = {RequestPath(UsersPath)}
    /\ lastOp = [client |-> 1, op |-> "handleAppLogin", alerted |-> FALSE,
                 token |-> "T_manual"]

NextTable ==
    \/ useEffect(1, TRUE, TRUE, TRUE, TRUE)
    \/ \E i \in 1..Len(dash[1].musicDatabases), ok \in BOOLEAN : handleOpenDatabase(1, i, ok)
    \/ \E term \in SearchTerms : setSearchTerm(1, term)
    \/ \E key \in SortKeys : handleSort(1, key)
    \/ \E k \in 1..Len(dash[1].dbRecords) : clickEditRow(1, k)
    \/ \E k \in 1..Len(dash[1].dbRecords), okContent \in BOOLEAN :
          clickDeleteRow(1, k, okContent, TRUE)
    \/ editEditingRecord(1, dash[1].editingRecord.record.nr, "a")
    \/ cancelEditRecord(1)
    \/ \E ok \in BOOLEAN : handleUpdateRecord(1, ok)

SpecTable == InitTable /\ [][NextTable]_vars

\* Record changes that overlap: the session of the record table deletes rows
\* and submits the Edit Record form without waiting for the upload of an
\* earlier delete to return; the registry uploads are answered.
NextOverlap ==
    \/ useEffect(1, TRUE, TRUE, TRUE, TRUE)
    \/ \E i \in 1..Len(dash[1].musicDatabases) : handleOpenDatabase(1, i, TRUE)
    \/ \E i \in 1..Len(dash[1].dbRecords) : startDeleteRecord(1, i)
    \/ \E i \in 1..Len(dash[1].dbRecords) : TableRenders(1) /\ setEditingRecord(1, i)
    \/ startUpdateRecord(1)
    \/ \E k \in 1..MaxPending, okContent \in BOOLEAN :
          recordUploadReturns(1, k, okContent, TRUE)

SpecOverlap == InitTable /\ [][NextOverlap]_vars

(* ------------------------------- claims -------------------------------- *)

\* The registry as stored, and the records of a content file as stored.
Registry(st) == LET regData == StoreGet(st, DatabasesPath)
                IN IF HasArray(regData, "databases") THEN regData.databases ELSE <<>>
RecordsOf(st, fileName) ==
    LET content == StoreGet(st, fileName)
    IN IF HasArray(content, "records") THEN content.records ELSE <<>>
Range(s) == {s[i] : i \in 1..Len(s)}

\* C1: every path a method of the service sends to the remote store is the
\* root folder '/JACA Lib' itself or lies under '/JACA Lib/', compared
\* case-insensitively.
C1_SentUnderRoot ==
    \A path \in sent :
        LET lowerPath == toLowerCase(path)
            lowerRoot == toLowerCase(ROOT_FOLDER)
        IN lowerPath = lowerRoot \/ startsWith(lowerPath, lowerRoot \o <<"/">>)

\* The library the last handler worked on: the one it imported (its id is
\* made of the last clock reading) or the one that is open in its session.
LastLibraryId ==
    IF lastOp.op = "handleSaveImport" THEN FileId(now)
    ELSE dash[lastOp.client].viewingDatabase.id

\* C2: after an import, add-record or delete-record that finishes without
\* reporting an error to the user, the recordCount of that library's entry in
\* /databases.json equals the length of the records array in its content file.
C2_CountMatchesRecords ==
    (/\ lastOp.op \in {"handleSaveImport", "handleCreateRecord", "handleDeleteRecord"}
     /\ ~lastOp.alerted)
    => \A db \in Range(Registry(store)) :
          db.id = LastLibraryId =>
              db.recordCount = Len(RecordsOf(store, db.fileName))

\* C3: an add-record or delete-record changes, in /databases.json, only the
\* recordCount of the open library's entry: every other entry stored in the
\* file before the step is stored in it, unchanged, after the step.
C3_OtherEntriesKept ==
    [][(/\ lastOp'.op \in {"handleCreateRecord", "handleDeleteRecord"}
        /\ ~lastOp'.alerted)
       => \A db \in Range(Registry(store)) :
             db.id # dash[lastOp'.client].viewingDatabase.id
                 => db \in Range(Registry(store'))]_vars

\* C4: after every completed Dashboard operation (import, delete library,
\* delete file, save file, add, edit or delete record) every entry of
\* /databases.json has a fileName that names a file existing in the store.
C4_RegistryFilesExist ==
    (/\ lastOp.op \in {"handleSaveImport", "handleDeleteDatabase", "handleDeleteFile",
                       "handleSaveFile", "handleCreateRecord", "handleUpdateRecord",
                       "handleDeleteRecord"}
     /\ ~lastOp.alerted)
    => \A db \in Range(Registry(store)) : StoreHas(store, db.fileName)

\* C5: every id in every user's associationIds in /users.json is the id of an
\* association present in /associations.json.
C5_AssociationIdsExist ==
    \A u \in Range(UsersOf(StoreGet(store, UsersPath))) :
        u.associationIds \subseteq Ids(AssociationsOf(StoreGet(store, AssociationsPath)))

\* C6: no two entries of /users.json have the same username, under every
\* interleaving of the add, edit and delete handlers of two sessions; and an
\* add-user whose username is in the downloaded file prepares no write: the
\* list any user handler is about to upload never holds a username twice.
C6_UsernamesUnique ==
    LET Distinct(users) ==
            \A i, j \in 1..Len(users) :
                users[i].username = users[j].username => i = j
    IN /\ Distinct(UsersOf(StoreGet(store, UsersPath)))
       /\ \A c \in Clients : pc[c].op \in UserOps => Distinct(pc[c].updatedUsers)

\* Both sessions have downloaded /users.json for an add of the same new
\* username, and both uploads are still to come.
C6_ConcurrentAdds ==
    /\ pc[1].op = "handleAddUser"
    /\ pc[2].op = "handleAddUser"
    /\ pc[1].updatedUsers[Len(pc[1].updatedUsers)].username
           = pc[2].updatedUsers[Len(pc[2].updatedUsers)].username

\* The steps of client 1 that load the library list with the download answered.
LibrariesLoaded ==
    \/ loadMusicDatabases(1, TRUE)
    \/ /\ dash[1].activeTab = "music"
       /\ \E ok1, ok2 \in BOOLEAN : useEffect(1, ok1, ok2, TRUE, TRUE)
    \/ \E ok1, ok2 \in BOOLEAN : handleNavClick(1, "music", ok1, ok2, TRUE, TRUE)

\* The registry entries of the caller's associations.
LibrariesOfCaller ==
    LET Mine(db) == \/ user(1).role = "group_admin"
                    \/ db.associationId \in user(1).associationIds
    IN SelectSeq(Registry(store), Mine)

\* C7: whenever the library list is loaded (by the effect on the Music
\* Libraries tab or by its refresh button, the download being answered), a
\* group_admin is shown every entry of /databases.json and any other caller
\* exactly the entries whose associationId is one of the caller's
\* associationIds.
C7_LibrariesShownByMembership ==
    [][LibrariesLoaded => dash'[1].musicDatabases = LibrariesOfCaller]_vars

\* A caller who is not the group admin has loaded a list that holds some, but
\* not all, of the registry's entries.
C7_PartOfRegistryShown ==
    /\ lastOp.op = "loadMusicDatabases"
    /\ user(1).role # "group_admin"
    /\ dash[1].musicDatabases # <<>>
    /\ Len(dash[1].musicDatabases) < Len(Registry(store))

\* The steps of client 1 that load the user list with the download answered.
UsersLoaded ==
    \/ /\ dash[1].activeTab = "users"
       /\ \E ok1, ok2 \in BOOLEAN : useEffect(1, ok1, ok2, TRUE, TRUE)
    \/ \E ok1, ok2 \in BOOLEAN : handleNavClick(1, "users", ok1, ok2, TRUE, TRUE)

\* The users of /users.json the caller is to see.
UsersOfCaller ==
    LET me == authState[1].currentUser
        Seen(u) == \/ me.role = "group_admin"
                   \/ /\ me.role = "admin"
                      /\ \/ u.username = me.username
                         \/ /\ u.role # "group_admin"
                            /\ \E id \in u.associationIds : id \in me.associationIds
    IN SelectSeq(UsersOf(StoreGet(store, UsersPath)), Seen)

\* C8: whenever the user list is loaded (the download being answered), a
\* group_admin is shown every user of /users.json and an admin exactly
\* themself plus the users who are not group_admin and share an association
\* id with the admin; a caller of any other role is never shown a user.
C8_UsersShownByPermission ==
    [][/\ UsersLoaded => dash'[1].users = UsersOfCaller
       /\ authState'[1].status = "dashboard"
          /\ authState'[1].currentUser.role \notin {"group_admin", "admin"}
          => dash'[1].users = <<>>]_vars

\* An admin has loaded a list that holds someone besides themself, but not
\* every user of the account.
C8_AdminSeesPartOfUsers ==
    /\ lastOp.op = "handleNavClick"
    /\ dash[1].activeTab = "users"
    /\ authState[1].currentUser.role = "admin"
    /\ Len(dash[1].users) >= 2
    /\ Len(dash[1].users) < Len(UsersOf(StoreGet(store, UsersPath)))

\* C9: the associations offered to the caller for assignment (to a user
\* being edited, to a library being imported) are every loaded association
\* for a group_admin, those whose id is among the caller's own associationIds
\* for an admin, and none for any other role.
C9_AssignableAssociations ==
    authState[1].status = "dashboard" =>
        LET me == authState[1].currentUser
            Allowed(a) == \/ me.role = "group_admin"
                          \/ me.role = "admin" /\ a.id \in me.associationIds
        IN getAvailableAssociations(1) = SelectSeq(dash[1].associations, Allowed)

\* An admin for whom some, but not all, of the loaded associations are
\* assignable.
C9_AdminOfferedOwnAssociations ==
    /\ authState[1].status = "dashboard"
    /\ authState[1].currentUser.role = "admin"
    /\ lastOp.op \in {"useEffect", "handleNavClick"}
    /\ getAvailableAssociations(1) # <<>>
    /\ Len(getAvailableAssociations(1)) < Len(dash[1].associations)

\* C10 as amended: from a form in which the Nr typed in is non-empty and is
\* the Nr of another record of the library as loaded, no step submits the
\* form: such a record is not saved through the add-record or the
\* edit-record form.
C10_DuplicateNrNotSaved ==
    [][/\ (Viewing(1) /\ dash[1].isAddingRecord /\ ExistingNrOnAdd(1) # {})
          => lastOp'.op # "handleCreateRecord"
       /\ (Viewing(1) /\ ~IsNone(dash[1].editingRecord) /\ ExistingNrOnEdit(1) # {})
          => lastOp'.op # "handleUpdateRecord"]_vars

\* The add-record form holds a title and an Nr that another record of the
\* library already carries.
C10_DuplicateNrTyped ==
    /\ Viewing(1)
    /\ dash[1].isAddingRecord
    /\ dash[1].newRecordData.title # ""
    /\ ExistingNrOnAdd(1) # {}

\* C10 as stated: with a non-empty Nr typed in that another record of the
\* library carries, the record can still be saved.
C10_DuplicateNrCanBeSaved ==
    C10_DuplicateNrTyped =>
        ENABLED (\E ok1, ok2 \in BOOLEAN : handleCreateRecord(1, ok1, ok2))

\* C11: once /roles.json exists, no step changes its content or removes it.
C11_RolesFileStatic ==
    [][StoreHas(store, RolesPath)
          => /\ StoreHas(store', RolesPath)
             /\ StoreGet(store', RolesPath) = StoreGet(store, RolesPath)]_vars

\* The users /users.json holds in a state of the store.
StoredUsers(st) ==
    LET userData == StoreGet(st, UsersPath)
    IN IF HasArray(userData, "users") THEN userData.users ELSE <<>>

\* new is old with one user appended, with the users of one name removed, or
\* with one user changed in place under the same name.
OneUserAdded(old, new) ==
    /\ Len(new) = Len(old) + 1
    /\ SubSeq(new, 1, Len(old)) = old
OneUserRemoved(old, new) ==
    \E k \in 1..Len(old) :
       LET Keep(u) == u.username # old[k].username IN new = SelectSeq(old, Keep)
OneUserChanged(old, new) ==
    /\ Len(new) = Len(old)
    /\ \E k \in 1..Len(old) :
          /\ new[k].username = old[k].username
          /\ \A j \in 1..Len(old) : j # k => new[j] = old[j]

\* C12: the write that ends add-user, edit-user or delete-user leaves
\* /users.json as it was read but for the one user added, changed or removed:
\* every other user, shown to the caller or not, is kept unchanged and in
\* place.
C12_UserWritesKeepOthers ==
    [][(pc[1].op \in UserOps /\ lastOp'.op \in UserOps /\ ~lastOp'.alerted)
          => LET old == StoredUsers(store)
                 new == StoredUsers(store')
             IN CASE pc[1].op = "handleAddUser" -> OneUserAdded(old, new)
                  [] pc[1].op = "handleDeleteUser" ->
                        new = old \/ OneUserRemoved(old, new)
                  [] OTHER -> OneUserChanged(old, new)]_vars

\* An admin has completed a user write while /users.json holds users the
\* admin is not shown.
C12_AdminWroteWithHiddenUsers ==
    /\ lastOp.op \in UserOps
    /\ ~lastOp.alerted
    /\ pc[1].op = "none"
    /\ authState[1].currentUser.role = "admin"
    /\ \E k \in 1..Len(StoredUsers(store)) :
          \A j \in 1..Len(dash[1].users) :
             dash[1].users[j].username # StoredUsers(store)[k].username

\* C13: the mount effect uses the first credential source there is, in the
\* order code of the URL, stored refresh token, configured token, and with
\* none of them sets login_required with no call pending or made; the
\* exchange of a code, answered or not, is never followed by a refresh of
\* the stored token.
C13_CredentialOrder ==
    [][/\ lastOp'.op = "handleAuthFlow" =>
             IF urlCode[1]
             THEN pc'[1].op = "exchangeCodeForToken" /\ localStorage' = localStorage
             ELSE IF localStorage[1] # NoToken
             THEN /\ pc'[1].op = "refreshAccessToken"
                  /\ pc'[1].refreshToken = localStorage[1]
             ELSE IF DROPBOX_ACCESS_TOKEN # NoToken
             THEN pc'[1].op = "init" /\ pc'[1].token = DROPBOX_ACCESS_TOKEN
             ELSE /\ pc'[1].op = "none"
                  /\ authState'[1].status = "login_required"
                  /\ sent' = {}
       /\ pc[1].op = "exchangeCodeForToken" =>
             \/ pc'[1].op = "init" /\ pc'[1].token = "T_code"
             \/ pc'[1].op = "none" /\ localStorage' = localStorage]_vars

\* The code of the URL is being exchanged while a refresh token is stored.
C13_CodeBeforeStoredToken ==
    /\ pc[1].op = "exchangeCodeForToken"
    /\ localStorage[1] # NoToken

\* C14 (its outcome): a connection attempt's initialization ends in
\* login_required when a remote call of it has failed and in app_login when
\* none has.
C14_ConnectionEndsByOutcome ==
    [][(pc[1].op = "init" /\ IsNone(pc[1].resume) /\ pc'[1].op = "none")
          => authState'[1].status =
                IF pc[1].failed \/ lastOp'.alerted THEN "login_required"
                ELSE "app_login"]_vars

\* The submitted credentials do not match a user of /users.json.
BadLogin(username, pass) ==
    LET userRecord == FindUser(StoredUsers(store), username)
    IN IsNone(userRecord) \/ hashPassword(pass) # userRecord.passwordHash

\* A login attempt with these credentials is awaiting its token refresh or
\* the initialization after it.
LoginPending(username, pass) ==
    \/ /\ pc[1].op \in {"refreshAccessToken", "init"}
       /\ ~IsNone(pc[1].resume)
       /\ pc[1].resume.username = username
       /\ pc[1].resume.pass = pass
    \/ /\ pc[1].op = "handleAppLogin"
       /\ pc[1].username = username
       /\ pc[1].pass = pass

\* The step of a login attempt that reads /users.json and checks the
\* credentials.
LoginChecks(username, pass) ==
    \/ /\ \E ok \in BOOLEAN : handleAppLogin(1, username, pass, ok)
       /\ pc'[1].op # "refreshAccessToken"
    \/ /\ pc[1].op = "handleAppLogin"
       /\ pc[1].username = username
       /\ pc[1].pass = pass
       /\ \E ok \in BOOLEAN : resumeAppLogin(1, ok)

\* C15 as stated (its second half): no step of a login attempt with an
\* unknown username or a wrong password changes status, isAuthenticated or
\* currentUser.
C15_FailedLoginChangesNothing ==
    [][\A username \in Usernames, pass \in Passwords :
          (/\ BadLogin(username, pass)
           /\ \/ LoginPending(username, pass)
              \/ \E ok \in BOOLEAN : handleAppLogin(1, username, pass, ok))
          => /\ authState'[1].status = authState[1].status
             /\ authState'[1].isAuthenticated = authState[1].isAuthenticated
             /\ authState'[1].currentUser = authState[1].currentUser]_vars

\* C15 as amended: status is dashboard only with isAuthenticated and a
\* currentUser; it becomes dashboard only in the step of a login attempt that
\* checks the credentials, with currentUser a record /users.json holds then,
\* of the submitted username and of the hash of the submitted password; a
\* check that fails reports an error and leaves authState as it is.
C15_DashboardOnlyByLogin ==
    [][/\ authState'[1].status = "dashboard" =>
             /\ authState'[1].isAuthenticated
             /\ ~IsNone(authState'[1].currentUser)
       /\ (authState[1].status # "dashboard" /\ authState'[1].status = "dashboard")
             => \E username \in Usernames, pass \in Passwords :
                   LoginChecks(username, pass)
       /\ \A username \in Usernames, pass \in Passwords :
             LoginChecks(username, pass) =>
                IF authState'[1].status = "dashboard" /\ ~lastOp'.alerted
                THEN /\ authState'[1].currentUser \in Range(StoredUsers(store))
                     /\ authState'[1].currentUser.username = username
                     /\ authState'[1].currentUser.passwordHash = hashPassword(pass)
                     /\ ~BadLogin(username, pass)
                ELSE /\ lastOp'.alerted
                     /\ authState' = authState]_vars

\* A login attempt has just been refused on the login form.
C15_LoginRefused ==
    /\ lastOp.op = "handleAppLogin"
    /\ lastOp.alerted
    /\ authState[1].status = "app_login"
    /\ ~authState[1].isAuthenticated

\* C16: no step of initializeDropbox changes a core file that exists.
C16_CoreFilesNotReplaced ==
    [][lastOp'.op = "initializeDropbox" =>
          \A k \in 1..Len(CoreFiles) :
             StoreHas(store, CoreFiles[k].path) =>
                StoreGet(store', CoreFiles[k].path) = StoreGet(store, CoreFiles[k].path)]_vars

\* C17: a login attempt that refreshed the access token downloads /users.json
\* with the refreshed token; a login attempt whose refresh fails ends in
\* login_required without reading the user file.
C17_LoginUsesRefreshedToken ==
    [][/\ (pc[1].op = "handleAppLogin" /\ lastOp'.op = "handleAppLogin")
             => lastOp'.token = authState[1].dropboxToken
       /\ (pc[1].op = "refreshAccessToken" /\ ~IsNone(pc[1].resume)
              /\ pc'[1].op = "none")
             => authState'[1].status = "login_required" /\ sent' = {}]_vars

\* C18: when the refresh of the stored token at startup fails, the stored
\* token is removed and status becomes login_required; when it is answered,
\* the stored token stays as it is.
C18_FailedRefreshForgetsToken ==
    [][(pc[1].op = "refreshAccessToken" /\ IsNone(pc[1].resume)) =>
          IF pc'[1].op = "init"
          THEN localStorage'[1] = localStorage[1] /\ localStorage[1] # NoToken
          ELSE /\ localStorage'[1] = NoToken
               /\ authState'[1].status = "login_required"]_vars

\* The startup refresh has just failed.
C18_StartupRefreshFailed ==
    /\ lastOp.op = "refreshAccessToken"
    /\ ~lastOp.alerted
    /\ pc[1].op = "none"
    /\ authState[1].status = "login_required"
    /\ localStorage[1] = NoToken

\* The content upload of the import that has just ended failed: the handler
\* reported an error having called the content file only.
ContentUploadFailed ==
    /\ lastOp.alerted
    /\ RequestPath(DatabasesPath) \notin sent

\* C19: every entry a step of handleSaveImport adds to /databases.json names
\* a content file the store holds after that step, and an import whose
\* content upload failed leaves the registry as it was.
C19_ImportWritesContentFirst ==
    [][lastOp'.op = "handleSaveImport" =>
          /\ \A e \in Range(Registry(store')) \ Range(Registry(store)) :
                StoreHas(store', e.fileName)
          /\ ContentUploadFailed' => Registry(store') = Registry(store)]_vars

\* An import has just failed on its content upload, with libraries registered.
C19_ContentUploadFailedOnce ==
    /\ lastOp.op = "handleSaveImport"
    /\ ContentUploadFailed
    /\ Registry(store) # <<>>

\* C20: an import that reports no error leaves /databases.json with the
\* entries it had, in their order and unchanged, followed by one new entry.
C20_ImportAppendsOneEntry ==
    [][(lastOp'.op = "handleSaveImport" /\ ~lastOp'.alerted) =>
          /\ Len(Registry(store')) = Len(Registry(store)) + 1
          /\ SubSeq(Registry(store'), 1, Len(Registry(store))) = Registry(store)]_vars

\* The registry without the entries of the id of db.
RegistryWithout(databases, db) ==
    LET Keep(d) == d.id # db.id
    IN SelectSeq(databases, Keep)

\* C21: a handleDeleteDatabase whose registry download and upload are
\* answered reports no error, whether or not the content file could be
\* deleted, and leaves /databases.json with the entries it had, in their
\* order and unchanged, except those of the deleted library's id.
C21_DeleteRemovesEntry ==
    [][\A i \in 1..Len(dash[1].musicDatabases), okDel, okLoad \in BOOLEAN :
          handleDeleteDatabase(1, i, okDel, TRUE, TRUE, okLoad, okLoad) =>
             /\ ~lastOp'.alerted
             /\ Registry(store') = RegistryWithout(Registry(store), dash[1].musicDatabases[i])
             /\ \A k \in 1..Len(Registry(store')) :
                   Registry(store')[k].id # dash[1].musicDatabases[i].id]_vars

\* A library has just been deleted whose content file could not be deleted:
\* the file it asked to delete is still stored, no entry names it, and
\* another library is registered.
C21_DeletedWithContentLeft ==
    /\ lastOp.op = "handleDeleteDatabase"
    /\ ~lastOp.alerted
    /\ Registry(store) # <<>>
    /\ \E path \in sent :
          /\ path # RequestPath(DatabasesPath)
          /\ path # RequestPath(<<>>)
          /\ StoreHas(store, path)
          /\ \A k \in 1..Len(Registry(store)) :
                RequestPath(Registry(store)[k].fileName) # path

\* The stored records of the library that is open, and a stored record with
\* the four values a displayed row shows.
ViewedRecords(st) == RecordsOf(st, dash[1].viewingDatabase.fileName)
ShownAs(r, row) ==
    /\ r.nr = row.nr
    /\ r.title = row.title
    /\ r.composer = row.composer
    /\ r.arranged = row.arranged

\* new is old without its p-th element, the others in their order.
WithoutPosition(old, new, p) ==
    /\ p \in 1..Len(old)
    /\ Len(new) = Len(old) - 1
    /\ \A j \in 1..Len(new) : new[j] = IF j < p THEN old[j] ELSE old[j + 1]

\* new is old with its p-th element replaced by a record shown as row.
WithPositionSet(old, new, p, row) ==
    /\ p \in 1..Len(old)
    /\ Len(new) = Len(old)
    /\ ShownAs(new[p], row)
    /\ \A j \in 1..Len(old) : j # p => new[j] = old[j]

\* C22: under every search term and sort order, the bin of a displayed row
\* removes from the content file the record at the row's originalIndex, which
\* is the record the row shows, and leaves the others as they are, in their
\* order; the pencil opens the form on that record, and saving the form
\* replaces the record at that position and no other.
C22_RowActionsHitTheirRecord ==
    [][/\ \A k \in 1..Len(dash[1].dbRecords) :
             /\ ((\E okContent \in BOOLEAN : clickDeleteRow(1, k, okContent, TRUE))
                    /\ ~lastOp'.alerted)
                   => /\ WithoutPosition(ViewedRecords(store), ViewedRecords(store'),
                                         displayedRecords(1)[k].originalIndex + 1)
                      /\ ShownAs(ViewedRecords(store)[displayedRecords(1)[k].originalIndex + 1],
                                 displayedRecords(1)[k])
             /\ clickEditRow(1, k)
                   => /\ dash'[1].editingRecord.originalIndex
                            = displayedRecords(1)[k].originalIndex + 1
                      /\ ShownAs(ViewedRecords(store)[dash'[1].editingRecord.originalIndex],
                                 displayedRecords(1)[k])
                      /\ ShownAs(dash'[1].editingRecord.record, displayedRecords(1)[k])
       /\ (handleUpdateRecord(1, TRUE) /\ ~lastOp'.alerted)
             => WithPositionSet(ViewedRecords(store), ViewedRecords(store'),
                                dash[1].editingRecord.originalIndex,
                                dash[1].editingRecord.record)]_vars

\* A row has just been deleted while a search term and a sort order were set,
\* and the rows still shown are not at their original positions.
C22_DeletedUnderSearchAndSort ==
    /\ lastOp.op = "handleDeleteRecord"
    /\ ~lastOp.alerted
    /\ dash[1].searchTerm # <<>>
    /\ ~IsNone(dash[1].sortConfig)
    /\ \E k \in 1..Len(displayedRecords(1)) : displayedRecords(1)[k].originalIndex + 1 # k

\* The records, as a set, a content file holds after the change of an
\* awaited handler has been made to the records it held before.
Changed(old, m) ==
    CASE m.kind = "delete" -> Range(old) \ {m.record}
      [] m.kind = "update" ->
            (Range(old) \ {m.dbRecords[i] : i \in {m.index} \cap (1..Len(m.dbRecords))})
               \cup {m.record}

\* C23: when the upload of a record change returns without an error, the
\* content file holds the records it held before with that change made, no
\* more and no less, whatever other changes were made while the upload was
\* awaited, and the recordCount of the library's registry entry is the length
\* of the file's records.
C23_OverlappingChangesKept ==
    [][\A k \in 1..Len(Pending(1)) :
          (recordUploadReturns(1, k, TRUE, TRUE) /\ ~lastOp'.alerted) =>
             /\ Range(RecordsOf(store', Pending(1)[k].db.fileName))
                   = Changed(RecordsOf(store, Pending(1)[k].db.fileName), Pending(1)[k])
             /\ \A j \in 1..Len(Registry(store')) :
                   Registry(store')[j].id = Pending(1)[k].db.id =>
                      Registry(store')[j].recordCount
                         = Len(RecordsOf(store', Pending(1)[k].db.fileName))]_vars

====
